---- MODULE Spec2Model ----
(***************************************************************************)
(* IkaLanguage backend: the verified-phrase matcher (app/nlp/phrasebank.py), *)
(* the local lexicon lookup service (app/lexicon_service.py), the dataset   *)
(* store and generator (app/lexicon_store.py, app/dataset_generator.py),    *)
(* the slot filler and rule-based generator (app/slot_filler.py,            *)
(* app/templates_engine.py, app/generator.py) and the SSML builder          *)
(* (app/tts/ssml.py).                                                       *)
(*                                                                         *)
(* Texts are sequences of one-character strings, so that tokenizing,       *)
(* stripping, case folding and whitespace collapsing are computed on       *)
(* characters as the Python code computes them.  Indices into token lists  *)
(* are 0-based as in the code; tokens[j] of the code is tokens[j + 1] here. *)
(***************************************************************************)
EXTENDS Integers, Sequences, FiniteSets, TLC

VARIABLES
    \* ---- PhraseBank (app/nlp/phrasebank.py) ----
    raw_items,      \* obj["items"] of the phrasebank JSON file read by load
    pb_loaded,      \* a PhraseBank instance has been constructed
    pb_items,       \* PhraseBank._items
    pb_trie,        \* PhraseBank._root, as [nodes, items]
    map_built,      \* _ika_to_en_map() has been called (lru_cache holds its result)
    ika_en_map,     \* the cached result of _ika_to_en_map()
    pc,             \* position of the current chunk() call
    tokens,         \* chunk: tokens
    i,              \* chunk: i
    matches,        \* chunk: matches
    ika_out,        \* chunk: ika_out
    pb_text,        \* phrasebank_translate: the joined text it returns
    \* ---- LexiconService (app/lexicon_service.py) ----
    lexicon_json,   \* exports/lexicon.json, the rows the index files are built from
    exact_file,     \* exports/indexes/exact_en_lookup.json
    ika_file,       \* exports/indexes/ika_to_en.json, as [exists, pairs]
    ls_loaded,      \* LexiconService._loaded
    exact_en,       \* LexiconService._exact_en
    en_keys_sorted, \* LexiconService._en_keys_sorted
    ika_to_en,      \* LexiconService._ika_to_en, in the order of dict.items()
    lk_call,        \* the last lookup made: "none", "en" or "ika"
    lk_text,        \* its argument
    lk_result,      \* the dict it returned
    lk_locals,      \* its locals: partial, overlap and whether it scanned the index
    \* ---- LexiconStore and dataset_generator ----
    st_export,      \* raw["docs"] of firestore_lexicon_export.json
    st_dict,        \* ika_raw["entries"] of ika_dictionary.json
    st_loaded,      \* get_store() has built and loaded the store
    st_entries,     \* LexiconStore.entries
    by_domain,      \* LexiconStore.by_domain
    st_en_to_ika,   \* LexiconStore.en_to_ika
    st_ika_to_en,   \* LexiconStore.ika_to_en
    ika_token_set,  \* LexiconStore.ika_token_set
    dg_call,        \* the last call made on the store: "none" or the function's name
    dg_args,        \* its arguments
    dg_result,      \* the value it returned
    dg_locals,      \* its locals
    \* ---- LexiconRepository, SlotFiller, TemplatesEngine, Generator ----
    fs_lexicon,     \* the Firestore collection "lexicon", in the order of stream()
    fs_ok,          \* the Firestore queries succeed (they raise when FALSE)
    pronouns,       \* SlotFiller.pronouns
    connectors,     \* SlotFiller.connectors["connectors"]
    pattern_index,  \* PatternRepository.pattern_index, in insertion order
    templates,      \* TemplatesEngine.templates
    gen_call,       \* the last call made: "none" or the method's name
    gen_args,       \* its arguments
    gen_result,     \* the value it returned
    gen_locals,     \* its locals
    rules,          \* RuleEngine.rules["tense_markers"], from grammar_rules.json
    \* ---- SSML helpers ----
    ipa_file,       \* data/ipa_dictionary.json: <<>> when missing or unreadable
    ipa_dict_cache, \* _ipa_dict_cache: the IPA dictionary once loaded
    ss_call,        \* the last call made: "none" or the function's name
    ss_args,        \* its arguments
    ss_result,      \* the value it returned
    \* ---- app/main.py: startup_event and POST /translate ----
    env,            \* what startup and requests find: which files and services work
    started,        \* startup_event has run
    validation,     \* what validate_on_startup did: "not run", "passed", "failed"
    generator,      \* the global generator: "None" or "Generator"
    tr_call,        \* the request being answered: "none" or "translate"
    tr_req,         \* its TranslateRequest
    tr_response,    \* the response or the HTTP error
    tr_stages,      \* the engines the handler asked, in order, with what they gave
    \* ---- LexiconStore.load() run again on the loaded store ----
    rl_pc,          \* where load is: "idle", "clear_by_domain", ..., "fill"
    rl_entries,     \* its local entries
    rl_i,           \* the entries its last loop has indexed
    \* ---- AudioCache (app/audio_cache.py) ----
    bucket,         \* the blobs of the storage bucket: path -> audio
    au_call,        \* the last call made: "none" or the method's name
    au_args,        \* its arguments
    au_result       \* the value it returned

pbVars == <<raw_items, pb_loaded, pb_items, pb_trie, map_built, ika_en_map, pc,
            tokens, i,
            matches, ika_out, pb_text>>

lexVars == <<lexicon_json, exact_file, ika_file, ls_loaded, exact_en,
             en_keys_sorted, ika_to_en, lk_call, lk_text, lk_result, lk_locals>>

stVars == <<st_export, st_dict, st_loaded, st_entries, by_domain, st_en_to_ika,
            st_ika_to_en, ika_token_set, dg_call, dg_args, dg_result, dg_locals,
            rl_pc, rl_entries, rl_i>>

genVars == <<fs_lexicon, fs_ok, pronouns, connectors, pattern_index, templates,
             gen_call, gen_args, gen_result, gen_locals, rules>>

ssVars == <<ipa_file, ipa_dict_cache, ss_call, ss_args, ss_result>>

apiVars == <<env, started, validation, generator, tr_call, tr_req, tr_response,
             tr_stages>>

auVars == <<bucket, au_call, au_args, au_result>>

vars == <<pbVars, lexVars, stVars, genVars, ssVars, apiVars, auVars>>

\* what a component leaves alone: the variables of the other components
pbOthers == <<lexVars, stVars, genVars, ssVars, apiVars, auVars>>
lexOthers == <<pbVars, stVars, genVars, ssVars, apiVars, auVars>>
stOthers == <<pbVars, lexVars, genVars, ssVars, apiVars, auVars>>
genOthers == <<pbVars, lexVars, stVars, ssVars, apiVars, auVars>>
ssOthers == <<pbVars, lexVars, stVars, genVars, apiVars, auVars>>
\* the endpoints read the phrase matcher, the store and the generator
apiOthers == <<lexVars, ssVars, auVars>>
auOthers == <<pbVars, lexVars, stVars, genVars, ssVars, apiVars>>

----------------------------------------------------------------------------
(* Characters and Python's str helpers                                      *)

UpperSeq ==
    <<"A", "B", "C", "D", "E", "F", "G", "H", "I", "J", "K", "L", "M",
      "N", "O", "P", "Q", "R", "S", "T", "U", "V", "W", "X", "Y", "Z">>
LowerSeq ==
    <<"a", "b", "c", "d", "e", "f", "g", "h", "i", "j", "k", "l", "m",
      "n", "o", "p", "q", "r", "s", "t", "u", "v", "w", "x", "y", "z">>
UpperLetters == {UpperSeq[k] : k \in 1..Len(UpperSeq)}
LowerLetters == {LowerSeq[k] : k \in 1..Len(LowerSeq)}
Whitespace == {" ", "\t"}

LowerMap ==
    [c \in UpperLetters |-> LowerSeq[CHOOSE k \in 1..Len(UpperSeq) : UpperSeq[k] = c]]

\* str.lower() on one character
LowerChar(c) == IF c \in UpperLetters THEN LowerMap[c] ELSE c

\* str.lower()
lower(s) == [k \in 1..Len(s) |-> LowerChar(s[k])]

SetMin(S) == CHOOSE x \in S : \A y \in S : x <= y
SetMax(S) == CHOOSE x \in S : \A y \in S : x >= y

\* str.strip()
strip(s) ==
    LET keep == {k \in 1..Len(s) : s[k] \notin Whitespace}
    IN  IF keep = {} THEN <<>> ELSE SubSeq(s, SetMin(keep), SetMax(keep))

\* text.replace(U+2019, "'") : the character U+2019 is written "rsquo"
ReplaceApostrophe(s) == [k \in 1..Len(s) |-> IF s[k] = "rsquo" THEN "'" ELSE s[k]]

\* a character matched by [a-z] under re.IGNORECASE
IsWordLetter(c) == c \in LowerLetters \cup UpperLetters

\* the last index of the maximal run of letters that starts at p
RunEnd(s, p) ==
    CHOOSE q \in p..Len(s) :
        /\ \A k \in p..q : IsWordLetter(s[k])
        /\ q = Len(s) \/ ~IsWordLetter(s[q + 1])

\* one match of WORD_RE = [a-z]+(?:'[a-z]+)? starting at the letter s[p]:
\* the index of its last character
WordMatchEnd(s, p) ==
    LET e1 == RunEnd(s, p)
    IN  IF /\ e1 + 2 <= Len(s)
           /\ s[e1 + 1] = "'"
           /\ IsWordLetter(s[e1 + 2])
        THEN RunEnd(s, e1 + 2)
        ELSE e1

RECURSIVE FindAllWords(_, _, _)
\* WORD_RE.finditer(text), left to right, non-overlapping; each match lowered
FindAllWords(s, p, acc) ==
    IF p > Len(s) THEN acc
    ELSE IF ~IsWordLetter(s[p]) THEN FindAllWords(s, p + 1, acc)
    ELSE LET e == WordMatchEnd(s, p)
         IN  FindAllWords(s, e + 1, Append(acc, lower(SubSeq(s, p, e))))

tokenize_en(text) ==
    IF text = <<>> THEN <<>>
    ELSE FindAllWords(ReplaceApostrophe(lower(text)), 1, <<>>)

----------------------------------------------------------------------------
(* PhraseBank.load                                                          *)

\* (it.get("status") or "").lower()
StatusLower(st) ==
    CASE st = "Verified" -> "verified"
      [] st = "VERIFIED" -> "verified"
      [] st = "Pending" -> "pending"
      [] OTHER -> st

\* a filter that forgets the status test
LoadSkipsEmptyOnly(it) == strip(it.english) = <<>>

\* the two `continue` tests of the loop in load: the item is skipped
LoadSkips(it) ==
    \/ StatusLower(it.status) # "verified"
    \/ strip(it.english) = <<>>

\* PhraseItem(id=..., english=eng, ika=(it.get("ika") or "").strip(), ...)
MakePhraseItem(it) ==
    [id |-> it.id, english |-> strip(it.english), ika |-> strip(it.ika)]

RECURSIVE FilterItems(_)
\* the loop of load over raw_items, in file order
FilterItems(raw) ==
    IF raw = <<>> THEN <<>>
    ELSE IF LoadSkips(Head(raw)) THEN FilterItems(Tail(raw))
    ELSE <<MakePhraseItem(Head(raw))>> \o FilterItems(Tail(raw))

\* the sort key of load: len(tokenize_en(x.english))
SortKey(item) == Len(tokenize_en(item.english))

\* a sort that reverses the elements of equal key (sorted(...)[::-1])
InsertUnstableDesc(sorted, x) ==
    LET before == {k \in 1..Len(sorted) : SortKey(sorted[k]) > SortKey(x)}
        n == IF before = {} THEN 0 ELSE SetMax(before)
    IN  SubSeq(sorted, 1, n) \o <<x>> \o SubSeq(sorted, n + 1, Len(sorted))

\* insert x into the sorted list so that it follows every element whose key
\* is >= its own: list.sort(key, reverse=True) is stable
InsertStableDesc(sorted, x) ==
    LET before == {k \in 1..Len(sorted) : SortKey(sorted[k]) >= SortKey(x)}
        n == IF before = {} THEN 0 ELSE SetMax(before)
    IN  SubSeq(sorted, 1, n) \o <<x>> \o SubSeq(sorted, n + 1, Len(sorted))

RECURSIVE SortDesc(_, _)
\* items.sort(key=lambda x: len(tokenize_en(x.english)), reverse=True)
SortDesc(items, acc) ==
    IF items = <<>> THEN acc
    ELSE SortDesc(Tail(items), InsertStableDesc(acc, Head(items)))

----------------------------------------------------------------------------
(* PhraseBank._build_trie                                                   *)
(* A trie node is identified by the token path from the root; node.children *)
(* holds t exactly when Append(path, t) is a node.                          *)

EmptyTrie == [nodes |-> {<<>>}, items |-> [p \in {<<>>} |-> <<>>]]

\* the body of the loop of _build_trie for one item
TrieInsert(trie, item) ==
    LET toks == tokenize_en(item.english)
    IN  IF toks = <<>> THEN trie
        ELSE LET newNodes == trie.nodes \cup {SubSeq(toks, 1, k) : k \in 1..Len(toks)}
             IN  [nodes |-> newNodes,
                  items |-> [p \in newNodes |->
                               LET old == IF p \in trie.nodes THEN trie.items[p] ELSE <<>>
                               IN  IF p = toks THEN Append(old, item) ELSE old]]

RECURSIVE BuildTrie(_, _)
BuildTrie(items, trie) ==
    IF items = <<>> THEN trie
    ELSE BuildTrie(Tail(items), TrieInsert(trie, Head(items)))

----------------------------------------------------------------------------
(* PhraseBank.find_longest_at                                               *)
(* The result is <<>> for None and <<[item, end]>> for (best, best_end).    *)

RECURSIVE WalkFirstMatch(_, _, _, _)
\* a walk that returns at the first node holding items
WalkFirstMatch(trie, toks, j, node) ==
    IF j >= Len(toks) THEN <<>>
    ELSE LET n2 == Append(node, toks[j + 1])
         IN  IF n2 \notin trie.nodes THEN <<>>
             ELSE IF trie.items[n2] # <<>>
                  THEN <<[item |-> trie.items[n2][1], end |-> j + 1]>>
                  ELSE WalkFirstMatch(trie, toks, j + 1, n2)

RECURSIVE Walk(_, _, _, _, _)
\* the while loop of find_longest_at; best is <<>> or <<[item, end]>>
Walk(trie, toks, j, node, best) ==
    IF j >= Len(toks) THEN best
    ELSE LET n2 == Append(node, toks[j + 1])
         IN  IF n2 \notin trie.nodes THEN best
             ELSE Walk(trie, toks, j + 1, n2,
                       IF trie.items[n2] # <<>>
                       THEN <<[item |-> trie.items[n2][1], end |-> j + 1]>>
                       ELSE best)

find_longest_first(trie, toks, at) == WalkFirstMatch(trie, toks, at, <<>>)

find_longest_at(trie, toks, at) == Walk(trie, toks, at, <<>>, <<>>)

----------------------------------------------------------------------------
(* PhraseBank.chunk: the effect of one loop iteration on each local         *)

\* matches.append(PhraseMatch(...)) when something was found
RecordMatch(ms, found, at) ==
    IF found = <<>> THEN ms
    ELSE Append(ms, [id |-> found[1].item.id,
                     english |-> found[1].item.english,
                     ika |-> found[1].item.ika,
                     start |-> at,
                     end |-> found[1].end])

\* an emit that forgets the test on item.ika
EmitAlways(out, found) ==
    IF found = <<>> THEN out ELSE Append(out, found[1].item.ika)

\* if item.ika: ika_out.append(item.ika)
Emit(out, found) ==
    IF found = <<>> THEN out
    ELSE IF found[1].item.ika # <<>> THEN Append(out, found[1].item.ika)
    ELSE out

\* a scan that moves one token at a time whatever was found
AdvanceByOne(at, found) == at + 1

\* i += 1 when nothing was found, i = end otherwise
Advance(at, found) ==
    IF found = <<>> THEN at + 1 ELSE found[1].end

----------------------------------------------------------------------------
(* phrasebank_translate and _ika_to_en_map                                  *)

RECURSIVE JoinSpace(_)
\* " ".join(chunks)
JoinSpace(chunks) ==
    IF chunks = <<>> THEN <<>>
    ELSE IF Len(chunks) = 1 THEN chunks[1]
    ELSE chunks[1] \o <<" ">> \o JoinSpace(Tail(chunks))

NonEmpty(c) == c # <<>>

\* " ".join([c for c in ika_chunks if c]).strip()
JoinChunks(chunks) == strip(JoinSpace(SelectSeq(chunks, NonEmpty)))

\* the key and the value _ika_to_en_map derives from one item
MapKey(it) == lower(strip(it.ika))
MapVal(it) == strip(it.english)

\* the loop of _ika_to_en_map over pb._items: a later item overwrites
BuildIkaEnMap(items) ==
    LET ok == {k \in 1..Len(items) : MapKey(items[k]) # <<>> /\ MapVal(items[k]) # <<>>}
        keys == {MapKey(items[k]) : k \in ok}
    IN  [key \in keys |->
            MapVal(items[SetMax({k \in ok : MapKey(items[k]) = key})])]

----------------------------------------------------------------------------
(* Inputs of the phrase matcher                                             *)

MaxItems == 3

\* rows of the phrasebank file
RawPool ==
    { [id |-> "p1", status |-> "verified", english |-> <<"a">>,                 ika |-> <<"x">>],
      [id |-> "p2", status |-> "verified", english |-> <<"a", " ", "b">>,       ika |-> <<"y">>],
      [id |-> "p3", status |-> "Verified", english |-> <<" ", "A", "!", "B">>,  ika |-> <<"X">>],
      [id |-> "p4", status |-> "verified", english |-> <<"b">>,                 ika |-> <<" ">>],
      [id |-> "p5", status |-> "pending",  english |-> <<"a", " ", "b", " ", "c">>, ika |-> <<"x", " ", "y">>],
      [id |-> "p6", status |-> "verified", english |-> <<" ", "\t">>,           ika |-> <<"y">>],
      [id |-> "p7", status |-> "verified", english |-> <<"!">>,                 ika |-> <<"x">>],
      [id |-> "p8", status |-> "verified", english |-> <<"c", " ", "a", " ", "b">>, ika |-> <<"x", "y">>],
      [id |-> "p9", status |-> "",         english |-> <<"c">>,                 ika |-> <<"y">>] }

\* every list of at most MaxItems different rows
Datasets ==
    UNION {{d \in [1..n -> RawPool] : \A j, k \in 1..n : j # k => d[j] # d[k]} :
              n \in 0..MaxItems}

\* texts passed to chunk
TextPool ==
    { <<>>,
      <<"!">>,
      <<"a">>,
      <<"A", " ", "b", " ", "c">>,
      <<"a", "b">>,
      <<"c", " ", "a">>,
      <<"c", ",", "A", " ", "B", "!">>,
      <<"b", " ", "a", " ", "b">>,
      <<"c", " ", "c", " ", "a", " ", "b">>,
      <<"a", "'", "b", " ", "a">>,
      <<"a", "rsquo", "b", " ", "b">> }

----------------------------------------------------------------------------
(* Strings of the lexicon service                                           *)

\* the code point order of the characters, as Python compares strings
CharRank(c) ==
    CASE c = "\t" -> 9
      [] c = " " -> 32
      [] c = "!" -> 33
      [] c = "'" -> 39
      [] c = "," -> 44
      [] c = "A" -> 65
      [] c = "B" -> 66
      [] c = "C" -> 67
      [] c = "X" -> 88
      [] c = "Y" -> 89
      [] c = "a" -> 97
      [] c = "b" -> 98
      [] c = "c" -> 99
      [] c = "x" -> 120
      [] c = "y" -> 121
      [] c = "rsquo" -> 8217
      [] OTHER -> 0

\* a < b for Python strings
StrLess(a, b) ==
    \E k \in 1..(Len(a) + 1) :
        /\ k <= Len(b)
        /\ \A j \in 1..(k - 1) : j <= Len(a) /\ a[j] = b[j]
        /\ k = Len(a) + 1 \/ CharRank(a[k]) < CharRank(b[k])

\* needle in hay
Contains(hay, needle) ==
    \E o \in 0..(Len(hay) - Len(needle)) :
        SubSeq(hay, o + 1, o + Len(needle)) = needle

\* s.startswith(prefix)
StartsWith(s, prefix) ==
    Len(prefix) <= Len(s) /\ SubSeq(s, 1, Len(prefix)) = prefix

RECURSIVE CollapseFrom(_, _, _)
\* re.sub(r"\s+", " ", s): every maximal run of whitespace becomes one space
CollapseFrom(s, k, acc) ==
    IF k > Len(s) THEN acc
    ELSE IF s[k] \in Whitespace
         THEN IF k > 1 /\ s[k - 1] \in Whitespace
              THEN CollapseFrom(s, k + 1, acc)
              ELSE CollapseFrom(s, k + 1, Append(acc, " "))
         ELSE CollapseFrom(s, k + 1, Append(acc, s[k]))

CollapseSpaces(s) == CollapseFrom(s, 1, <<>>)

\* re.sub of the typographic quotes by "'"
AsciiQuotes(s) == [k \in 1..Len(s) |-> IF s[k] = "rsquo" THEN "'" ELSE s[k]]

\* a normalization that forgets to fold the case
normalize_keep_case(text) ==
    IF text = <<>> THEN <<>>
    ELSE strip(CollapseSpaces(AsciiQuotes(strip(text))))

\* _normalize
normalize(text) ==
    IF text = <<>> THEN <<>>
    ELSE strip(CollapseSpaces(AsciiQuotes(lower(strip(text)))))

\* set(s.split()): the maximal runs of non-whitespace characters
SplitSet(s) ==
    {SubSeq(s, a, b) : <<a, b>> \in
        {<<a, b>> \in (1..Len(s)) \X (1..Len(s)) :
            /\ a <= b
            /\ \A k \in a..b : s[k] \notin Whitespace
            /\ a = 1 \/ s[a - 1] \in Whitespace
            /\ b = Len(s) \/ s[b + 1] \in Whitespace}}

\* _token_overlap_score
token_overlap_score(query_tokens, key_tokens) ==
    Cardinality(query_tokens \cap key_tokens)

\* the place of key x in an ascending list
InsertKey(sorted, x) ==
    LET before == {k \in 1..Len(sorted) : StrLess(sorted[k], x)}
        n == IF before = {} THEN 0 ELSE SetMax(before)
    IN  SubSeq(sorted, 1, n) \o <<x>> \o SubSeq(sorted, n + 1, Len(sorted))

RECURSIVE SortedKeys(_)
\* sorted(keys)
SortedKeys(keys) ==
    IF keys = {} THEN <<>>
    ELSE LET x == CHOOSE y \in keys : TRUE
         IN  InsertKey(SortedKeys(keys \ {x}), x)

\* seq[:n]
Take(seq, n) == SubSeq(seq, 1, IF Len(seq) < n THEN Len(seq) ELSE n)

\* a slice that is not taken
TakeAll(seq, n) == seq

\* the slices [:10] of the suggestion lists
Truncate(seq, n) == Take(seq, n)

SeqRange(seq) == {seq[k] : k \in 1..Len(seq)}

----------------------------------------------------------------------------
(* The index files (data/scripts/build_fast_lookup.py, build_indexes.py)    *)

\* characters the two character-class substitutions of build_fast_lookup's
\* norm delete
FastNormDrops(c) == c \in {"'", "rsquo"}

RECURSIVE DropChars(_)
DropChars(s) ==
    IF s = <<>> THEN <<>>
    ELSE IF FastNormDrops(Head(s)) THEN DropChars(Tail(s))
    ELSE <<Head(s)>> \o DropChars(Tail(s))

\* build_fast_lookup.norm
fast_norm(text) == strip(DropChars(CollapseSpaces(lower(strip(text)))))

\* build_indexes.norm
index_norm(text) == CollapseSpaces(lower(strip(text)))

RECURSIVE BuildExact(_, _)
\* the loop of build_fast_lookup over lexicon.json: exact[en].append({...})
BuildExact(rows, exact) ==
    IF rows = <<>> THEN exact
    ELSE LET e == Head(rows)
             en == fast_norm(e.source_text)
             ika == strip(e.target_text)
             cand == [id |-> e.id, domain |-> e.domain, ika |-> ika]
         IN  IF en = <<>> \/ ika = <<>> THEN BuildExact(Tail(rows), exact)
             ELSE BuildExact(Tail(rows),
                    [k \in DOMAIN exact \cup {en} |->
                        IF k = en
                        THEN (IF en \in DOMAIN exact THEN Append(exact[en], cand)
                              ELSE <<cand>>)
                        ELSE exact[k]])

RECURSIVE BuildIkaToEn(_, _)
\* the loop of build_indexes over lexicon.json: ika_to_en[ika].append(en);
\* the pairs are in the order json.dump writes the dict (first insertion)
BuildIkaToEn(rows, pairs) ==
    IF rows = <<>> THEN pairs
    ELSE LET e == Head(rows)
             en == index_norm(e.source_text)
             ika == index_norm(e.target_text)
             at == {k \in 1..Len(pairs) : pairs[k].key = ika}
         IN  IF en = <<>> \/ ika = <<>> THEN BuildIkaToEn(Tail(rows), pairs)
             ELSE IF at = {}
                  THEN BuildIkaToEn(Tail(rows),
                         Append(pairs, [key |-> ika, meanings |-> <<en>>]))
                  ELSE BuildIkaToEn(Tail(rows),
                         [k \in 1..Len(pairs) |->
                            IF k \in at
                            THEN [key |-> ika, meanings |-> Append(pairs[k].meanings, en)]
                            ELSE pairs[k]])

----------------------------------------------------------------------------
(* LexiconService.lookup_en_to_ika                                          *)

PartialCap == 15
OverlapCap == 10
SuggestionCap == 10
IkaSuggestionCap == 10

\* norm in key or key.startswith(norm) or norm.startswith(key)
PartialMatch(norm, key) ==
    \/ Contains(key, norm)
    \/ StartsWith(key, norm)
    \/ StartsWith(norm, key)

RECURSIVE PartialScan(_, _, _, _)
\* the first loop over _en_keys_sorted, with its break
PartialScan(keys, k, norm, partial) ==
    IF k > Len(keys) THEN partial
    ELSE LET p2 == IF PartialMatch(norm, keys[k]) THEN Append(partial, keys[k])
                   ELSE partial
         IN  IF Len(p2) >= PartialCap THEN p2
             ELSE PartialScan(keys, k + 1, norm, p2)

RECURSIVE OverlapScan(_, _, _, _, _)
\* the second loop over _en_keys_sorted
OverlapScan(keys, k, query_tokens, partial, overlap) ==
    IF k > Len(keys) THEN overlap
    ELSE IF keys[k] \in SeqRange(partial)
         THEN OverlapScan(keys, k + 1, query_tokens, partial, overlap)
    ELSE LET score == token_overlap_score(query_tokens, SplitSet(keys[k]))
         IN  OverlapScan(keys, k + 1, query_tokens, partial,
                         IF score > 0
                         THEN Append(overlap, [score |-> score, key |-> keys[k]])
                         ELSE overlap)

\* an order by key alone
OverlapBeforeByKey(x, y) == StrLess(x.key, y.key)

\* the sort key (-x[0], x[1]) of overlap.sort: x sorts before y
OverlapBefore(x, y) ==
    \/ x.score > y.score
    \/ x.score = y.score /\ StrLess(x.key, y.key)

\* list.sort is stable: x goes after every element that does not sort after it
OverlapInsert(sorted, x) ==
    LET before == {k \in 1..Len(sorted) : ~OverlapBefore(x, sorted[k])}
        n == IF before = {} THEN 0 ELSE SetMax(before)
    IN  SubSeq(sorted, 1, n) \o <<x>> \o SubSeq(sorted, n + 1, Len(sorted))

RECURSIVE OverlapSort(_, _)
OverlapSort(overlap, acc) ==
    IF overlap = <<>> THEN acc
    ELSE OverlapSort(Tail(overlap), OverlapInsert(acc, Head(overlap)))

RECURSIVE Dedupe(_, _)
\* list(dict.fromkeys(seq)): first occurrences, in order
Dedupe(seq, acc) ==
    IF seq = <<>> THEN acc
    ELSE Dedupe(Tail(seq),
                IF Head(seq) \in SeqRange(acc) THEN acc ELSE Append(acc, Head(seq)))

RECURSIVE SuggestionsFor(_, _)
\* the loop over suggestion_keys: the first candidate of each key, if any
SuggestionsFor(idx, keys) ==
    IF keys = <<>> THEN <<>>
    ELSE LET k == Head(keys)
             cands == IF k \in DOMAIN idx THEN idx[k] ELSE <<>>
         IN  (IF cands = <<>> THEN <<>>
              ELSE <<[en |-> k, ika |-> cands[1].ika, id |-> cands[1].id,
                      domain |-> cands[1].domain]>>)
             \o SuggestionsFor(idx, Tail(keys))

\* a hit that returns the first candidate only
ExactHitFirstOnly(idx, norm) == Take(idx[norm], 1)

\* "candidates": self._exact_en[norm]
ExactHit(idx, norm) == idx[norm]

\* lookup_en_to_ika after self.load(): [res |-> the dict returned,
\* locals |-> partial, overlap and whether a loop over the keys was entered]
lookup_en_to_ika(idx, keys, text) ==
    LET norm == normalize(text)
    IN  IF norm = <<>>
        THEN [res |-> [found |-> FALSE, query |-> <<>>, candidates |-> <<>>,
                       suggestions |-> <<>>],
              locals |-> [scanned |-> FALSE, partial |-> <<>>, overlap |-> <<>>]]
        ELSE IF norm \in DOMAIN idx
        THEN [res |-> [found |-> TRUE, query |-> norm,
                       candidates |-> ExactHit(idx, norm), suggestions |-> <<>>],
              locals |-> [scanned |-> FALSE, partial |-> <<>>, overlap |-> <<>>]]
        ELSE LET partial == PartialScan(keys, 1, norm, <<>>)
                 overlap == OverlapSort(
                              OverlapScan(keys, 1, SplitSet(norm), partial, <<>>),
                              <<>>)
                 top == Take(overlap, OverlapCap)
                 suggestion_keys ==
                     Truncate(Dedupe(partial \o [k \in 1..Len(top) |-> top[k].key],
                                     <<>>),
                              SuggestionCap)
             IN  [res |-> [found |-> FALSE, query |-> norm, candidates |-> <<>>,
                           suggestions |-> SuggestionsFor(idx, suggestion_keys)],
                  locals |-> [scanned |-> TRUE, partial |-> partial,
                              overlap |-> overlap]]

----------------------------------------------------------------------------
(* LexiconService.lookup_ika_to_en                                          *)

\* key.strip().lower() == norm.lower()
IkaKeyMatches(key, norm) == lower(strip(key)) = lower(norm)

\* norm.lower() in key.lower() or key.lower() in norm.lower()
IkaPartial(key, norm) ==
    \/ Contains(lower(key), lower(norm))
    \/ Contains(lower(norm), lower(key))

IkaSuggestion(pair) == [ika |-> pair.key, en |-> pair.meanings]

\* lookup_ika_to_en after self.load()
lookup_ika_to_en(pairs, ika_text) ==
    LET norm == strip(ika_text)
        hits == {k \in 1..Len(pairs) : IkaKeyMatches(pairs[k].key, norm)}
    IN  IF norm = <<>>
        THEN [res |-> [found |-> FALSE, query |-> norm, meanings |-> <<>>],
              locals |-> [scanned |-> FALSE, partial |-> <<>>, overlap |-> <<>>]]
        ELSE IF hits # {}
        THEN [res |-> [found |-> TRUE, query |-> norm,
                       meanings |-> pairs[SetMin(hits)].meanings,
                       ika_key |-> pairs[SetMin(hits)].key],
              locals |-> [scanned |-> TRUE, partial |-> <<>>, overlap |-> <<>>]]
        ELSE LET near == {k \in 1..Len(pairs) : IkaPartial(pairs[k].key, norm)}
                 suggestions ==
                     [k \in 1..Cardinality(near) |->
                        IkaSuggestion(pairs[
                           CHOOSE m \in near :
                              Cardinality({j \in near : j < m}) = k - 1])]
             IN  [res |-> [found |-> FALSE, query |-> norm, meanings |-> <<>>,
                           suggestions |-> Truncate(suggestions, IkaSuggestionCap)],
                  locals |-> [scanned |-> TRUE, partial |-> <<>>, overlap |-> <<>>]]

----------------------------------------------------------------------------
(* Inputs of the lexicon service                                            *)

MaxRows == 31
MaxQueryLen == 3

\* rows of exports/lexicon.json
LexiconRows ==
    << [id |-> "2",  domain |-> "greeting", source_text |-> <<"b">>,                target_text |-> <<"x", " ", "y">>],
       [id |-> "1",  domain |-> "general",  source_text |-> <<" ", "B", " ">>,      target_text |-> <<"y">>],
       [id |-> "3",  domain |-> "general",  source_text |-> <<"a", " ", "b">>,      target_text |-> <<"X", "y">>],
       [id |-> "4",  domain |-> "general",  source_text |-> <<"A", " ", "\t", "b", "'">>, target_text |-> <<"x", " ", " ", "Y">>],
       [id |-> "5",  domain |-> "general",  source_text |-> <<" ", "\t">>,          target_text |-> <<"y", "y">>],
       [id |-> "6",  domain |-> "general",  source_text |-> <<"b", "b">>,           target_text |-> <<" ">>],
       [id |-> "7",  domain |-> "general",  source_text |-> <<"a", "b">>,           target_text |-> <<"y", "x">>],
       [id |-> "18", domain |-> "general",  source_text |-> <<"a", " ", "a">>,      target_text |-> <<"x", " ", "y", "y">>],
       [id |-> "19", domain |-> "general",  source_text |-> <<"a", " ", "a", "b">>, target_text |-> <<"x", "y", " ", "x">>],
       [id |-> "20", domain |-> "general",  source_text |-> <<"a", "b", " ", "a">>, target_text |-> <<"y", " ", "x", "x">>],
       [id |-> "21", domain |-> "general",  source_text |-> <<"a", " ", "b", "b">>, target_text |-> <<"y", "x", " ", "y">>],
       [id |-> "22", domain |-> "general",  source_text |-> <<"b", "b", " ", "b">>, target_text |-> <<"x", "y", "y", "x">>],
       [id |-> "23", domain |-> "general",  source_text |-> <<"a", "a", " ", "a">>, target_text |-> <<"x", "x", "x", "x">>],
       [id |-> "24", domain |-> "general",  source_text |-> <<"a", " ", "a", "a">>, target_text |-> <<"x", "x", "x", "y">>],
       [id |-> "25", domain |-> "general",  source_text |-> <<"b", " ", "a", "b">>, target_text |-> <<"x", "x", "y", "x">>],
       [id |-> "26", domain |-> "general",  source_text |-> <<"a", "b", " ", "b">>, target_text |-> <<"x", "y", "x", "x">>],
       [id |-> "27", domain |-> "general",  source_text |-> <<"b", "b", " ", "a">>, target_text |-> <<"y", "x", "x", "x">>],
       [id |-> "28", domain |-> "general",  source_text |-> <<"b", " ", "b", "b">>, target_text |-> <<"x", "x", "y", "y">>],
       [id |-> "29", domain |-> "general",  source_text |-> <<"a", "a", " ", "b">>, target_text |-> <<"y", "y", "x", "x">>],
       [id |-> "30", domain |-> "general",  source_text |-> <<"b", " ", "a", "a">>, target_text |-> <<"y", "x", "x", "y">>],
       [id |-> "32", domain |-> "general",  source_text |-> <<"a", " ", "b", "a">>, target_text |-> <<"y", "y", "y", "x">>],
       [id |-> "9",  domain |-> "general",  source_text |-> <<"a", "a">>,           target_text |-> <<"y", " ", "x">>],
       [id |-> "10", domain |-> "general",  source_text |-> <<"b", "a">>,           target_text |-> <<"x", "x", "y">>],
       [id |-> "11", domain |-> "general",  source_text |-> <<"a", "a", "b">>,      target_text |-> <<"x", "y", "x">>],
       [id |-> "12", domain |-> "general",  source_text |-> <<"a", "b", "a">>,      target_text |-> <<"y", "x", "x">>],
       [id |-> "13", domain |-> "general",  source_text |-> <<"b", "a", "a">>,      target_text |-> <<"x", "y", "y">>],
       [id |-> "14", domain |-> "general",  source_text |-> <<"a", "b", "b">>,      target_text |-> <<"y", "x", "y">>],
       [id |-> "15", domain |-> "general",  source_text |-> <<"b", "a", "b">>,      target_text |-> <<"y", "y", "x">>],
       [id |-> "16", domain |-> "general",  source_text |-> <<"b", "b", "a">>,      target_text |-> <<"x", "x", "x">>],
       [id |-> "8",  domain |-> "general",  source_text |-> <<"b", " ", "a">>,      target_text |-> <<"x", "x">>],
       [id |-> "17", domain |-> "general",  source_text |-> <<"a", "a", "a">>,      target_text |-> <<"x", " ", "x">>],
       [id |-> "31", domain |-> "general",  source_text |-> <<"a", "'", "A">>, target_text |-> <<"X", "y", "x", "y">>] >>

\* lexicon.json holds the first n rows, for every n up to MaxRows
Lexicons ==
    {SubSeq(LexiconRows, 1, n) :
        n \in 0..(IF MaxRows < Len(LexiconRows) THEN MaxRows ELSE Len(LexiconRows))}

\* every text of at most n characters
Texts(chars, n) == UNION {[1..m -> chars] : m \in 0..n}

EnQueries == Texts({"a", "B", " "}, MaxQueryLen)
IkaQueries == Texts({"x", "Y", " "}, MaxQueryLen)

----------------------------------------------------------------------------
(* LexiconStore.load and is_ika_text (app/lexicon_store.py)                 *)

\* str.strip() on a domain name; domain names are whole strings here
DomainStrip(d) ==
    CASE d = " greeting " -> "greeting"
      [] d = "  " -> ""
      [] OTHER -> d

\* d.startswith("sentence.")
IsSentenceDomain(d) == d \in {"sentence.svo", "sentence.expression"}

\* `if not domain or not en or not ika: continue`
StoreSkips(d) ==
    \/ DomainStrip(d.domain) = ""
    \/ strip(d.source_text) = <<>>
    \/ strip(d.target_text) = <<>>

\* LexEntry(domain=domain, en=en, ika=ika) of the stripped fields
MakeLexEntry(d) ==
    [domain |-> DomainStrip(d.domain), en |-> strip(d.source_text),
     ika |-> strip(d.target_text)]

RECURSIVE StoreEntries(_)
\* one of the two loops of load over the docs of a file
StoreEntries(docs) ==
    IF docs = <<>> THEN <<>>
    ELSE IF StoreSkips(Head(docs)) THEN StoreEntries(Tail(docs))
    ELSE <<MakeLexEntry(Head(docs))>> \o StoreEntries(Tail(docs))

\* a character of the class of TOKEN_RE: a letter, an apostrophe or a hyphen
IsTokenChar(c) == c \in LowerLetters \cup UpperLetters \cup {"'", "-"}

\* the last index of the maximal run of token characters that starts at p
TokenRunEnd(s, p) ==
    CHOOSE q \in p..Len(s) :
        /\ \A k \in p..q : IsTokenChar(s[k])
        /\ q = Len(s) \/ ~IsTokenChar(s[q + 1])

\* TOKEN_RE.findall(s): the maximal runs of token characters, left to right
TokenFindAll(s) ==
    LET starts == {p \in 1..Len(s) :
                      IsTokenChar(s[p]) /\ (p = 1 \/ ~IsTokenChar(s[p - 1]))}
        StartAt(k) == CHOOSE p \in starts : Cardinality({q \in starts : q <= p}) = k
    IN  [k \in 1..Cardinality(starts) |-> SubSeq(s, StartAt(k), TokenRunEnd(s, StartAt(k)))]

\* the key of an entry in by_domain, en_to_ika and ika_to_en
IndexKey(e, index) ==
    CASE index = "by_domain" -> e.domain
      [] index = "en_to_ika" -> lower(e.en)
      [] index = "ika_to_en" -> lower(e.ika)

\* the entries of a list whose key is k, in the order of the list: what the
\* appends of load leave under k
EntriesWith(entries, index, k) ==
    LET Pick(e) == IndexKey(e, index) = k IN SelectSeq(entries, Pick)

\* a defaultdict(list) filled by the loop of load: the keys that were appended to
IndexBy(entries, index) ==
    [k \in {IndexKey(entries[n], index) : n \in 1..Len(entries)} |->
        EntriesWith(entries, index, k)]

\* the tokens the loop of load adds to ika_token_set
IkaTokens(entries) ==
    UNION {LET toks == TokenFindAll(entries[n].ika)
           IN  {lower(toks[k]) : k \in 1..Len(toks)} : n \in 1..Len(entries)}

\* d.get(key, [])
GetList(d, key) == IF key \in DOMAIN d THEN d[key] ELSE <<>>

\* a threshold test that needs more than 35%
AtLeastStrict(hit, n) == hit * 100 > 35 * n

\* hit / max(1, len(toks)) >= 0.35: the quotient is the double nearest to
\* hit/n and 0.35 is the double nearest to 35/100, so for token counts far
\* below 2^50 the test is the comparison of the two fractions
AtLeastThreshold(hit, n) == hit * 100 >= 35 * n

\* LexiconStore.is_ika_text
is_ika_text(token_set, text) ==
    LET found == TokenFindAll(text)
        toks == [k \in 1..Len(found) |-> lower(found[k])]
        hit == Cardinality({k \in 1..Len(toks) : toks[k] \in token_set})
    IN  IF toks = <<>> THEN FALSE
        ELSE AtLeastThreshold(hit, IF Len(toks) > 1 THEN Len(toks) ELSE 1)

----------------------------------------------------------------------------
(* app/dataset_generator.py                                                 *)

\* pick(entries): None is <<>>, an entry e is <<e>>; every entry can be drawn
pick(entries) ==
    IF entries = <<>> THEN {<<>>}
    ELSE {<<entries[k]>> : k \in 1..Len(entries)}

RECURSIVE PickFirst(_)
\* pick(a) or pick(b) or ... over a list of lists: LexEntry objects are truthy
PickFirst(lists) ==
    IF lists = <<>> THEN {<<>>}
    ELSE IF Head(lists) # <<>> THEN pick(Head(lists))
    ELSE PickFirst(Tail(lists))

\* a sort key that gives every domain the same tier
TierNone(e) == 0

\* the sort key of hits_sorted
Tier(e) == IF IsSentenceDomain(e.domain) \/ e.domain = "greeting" THEN 0 ELSE 1

\* sorted(hits, key=...): the sort is stable and the key has two values
HitsSorted(hits) ==
    LET InTier0(e) == Tier(e) = 0
        InTier1(e) == Tier(e) # 0
    IN  SelectSeq(hits, InTier0) \o SelectSeq(hits, InTier1)

\* translate_en_to_ika_sentence: the values it can return, each with the
\* hits it found
translate_en_to_ika_sentence(entries, domains, en_idx, english) ==
    LET hits == GetList(en_idx, lower(strip(english)))
    IN  IF hits # <<>>
        THEN {[res |-> HitsSorted(hits)[1].ika, locals |-> [hits |-> hits]]}
        ELSE LET first == PickFirst(<<GetList(domains, "sentence.expression"),
                                      GetList(domains, "sentence.svo"),
                                      GetList(domains, "greeting"),
                                      GetList(domains, "synonym_general")>>)
                 base == IF first = {<<>>} THEN pick(entries) ELSE first
             IN  {[res |-> IF b = <<>> THEN <<>> ELSE b[1].ika,
                   locals |-> [hits |-> hits]] : b \in base}

NotFoundText ==
    <<"N", "o", "t", " ", "f", "o", "u", "n", "d", " ", "i", "n", " ",
      "d", "a", "t", "a", "s", "e", "t", ".">>

\* translate_ika_to_en
translate_ika_to_en(ika_idx, ika) ==
    LET hits == GetList(ika_idx, lower(strip(ika)))
    IN  [res |-> IF hits # <<>> THEN hits[1].en ELSE NotFoundText,
         locals |-> [hits |-> hits]]

ApologyWords ==
    {<<"s", "o", "r", "r", "y">>,
     <<"a", "p", "o", "l", "o", "g", "i", "z", "e">>,
     <<"a", "p", "o", "l", "o", "g", "y">>,
     <<"f", "o", "r", "g", "i", "v", "e">>}

RequestWords ==
    {<<"p", "l", "e", "a", "s", "e">>,
     <<"c", "o", "u", "l", "d", " ", "y", "o", "u">>,
     <<"w", "o", "u", "l", "d", " ", "y", "o", "u">>,
     <<"w", "a", "n", "t">>,
     <<"n", "e", "e", "d">>}

GreetingWords ==
    {<<"h", "e", "l", "l", "o">>,
     <<"h", "i">>,
     <<"h", "e", "y">>,
     <<"g", "r", "e", "e", "t">>}

QuestionWords ==
    {<<"w", "h", "a", "t">>,
     <<"h", "o", "w">>,
     <<"w", "h", "y">>,
     <<"w", "h", "e", "n">>,
     <<"w", "h", "e", "r", "e">>,
     <<"?">>}

AnnouncementWords ==
    {<<"t", "e", "l", "l">>,
     <<"s", "a", "y">>,
     <<"i", "n", "f", "o", "r", "m">>,
     <<"l", "e", "t", " ", "y", "o", "u", " ", "k", "n", "o", "w">>,
     <<"l", "a", "t", "e">>,
     <<"t", "r", "a", "f", "f", "i", "c">>}

\* any(w in t for w in words)
AnyIn(words, t) == \E w \in words : Contains(t, w)

\* a scan that tests the question words before the greeting words
classify_question_first(text) ==
    LET t == strip(lower(text))
    IN  IF AnyIn(ApologyWords, t) THEN "apology"
        ELSE IF AnyIn(RequestWords, t) THEN "request"
        ELSE IF AnyIn(QuestionWords, t) THEN "question"
        ELSE IF AnyIn(GreetingWords, t) THEN "greeting"
        ELSE IF AnyIn(AnnouncementWords, t) THEN "announcement"
        ELSE "message"

\* _classify_intent
classify_intent(text) ==
    LET t == strip(lower(text))
    IN  IF AnyIn(ApologyWords, t) THEN "apology"
        ELSE IF AnyIn(RequestWords, t) THEN "request"
        ELSE IF AnyIn(GreetingWords, t) THEN "greeting"
        ELSE IF AnyIn(QuestionWords, t) THEN "question"
        ELSE IF AnyIn(AnnouncementWords, t) THEN "announcement"
        ELSE "message"

\* n = 2 if length == "short" else 4 if length == "medium" else 6
Budget(length) ==
    IF length = "short" THEN 2 ELSE IF length = "medium" THEN 4 ELSE 6

\* "sorry" in e.en.lower() or "apolog" in e.en.lower()
IsApologyEntry(e) ==
    \/ Contains(lower(e.en), <<"s", "o", "r", "r", "y">>)
    \/ Contains(lower(e.en), <<"a", "p", "o", "l", "o", "g">>)

\* an append that forgets the English text of the component
AppendIkaOnly(parts, e, note) ==
    [ika |-> Append(parts.ika, e.ika), en |-> parts.en,
     notes |-> IF note = "" THEN parts.notes ELSE Append(parts.notes, note)]

\* parts_ika.append(e.ika); parts_en.append(e.en); notes.append(note), the
\* last only where the code has it
AppendPart(parts, e, note) ==
    [ika |-> Append(parts.ika, e.ika), en |-> Append(parts.en, e.en),
     notes |-> IF note = "" THEN parts.notes ELSE Append(parts.notes, note)]

NoParts == [ika |-> <<>>, en |-> <<>>, notes |-> <<>>]

\* the if/elif chain of naturalize that seeds the output: the values of
\* (parts_ika, parts_en, notes) it can leave
Opening(intent, tone, greeting) ==
    IF intent = "apology" /\ greeting # <<>>
    THEN IF \E k \in 1..Len(greeting) : IsApologyEntry(greeting[k])
         THEN {AppendPart(NoParts,
                          greeting[SetMin({k \in 1..Len(greeting) :
                                              IsApologyEntry(greeting[k])})],
                          "Used apology form")}
         ELSE {AppendPart(NoParts, e[1], "Used greeting as apology context") :
                  e \in pick(greeting)}
    ELSE IF intent = "greeting" /\ greeting # <<>>
    THEN {AppendPart(NoParts, e[1], "Used greeting") : e \in pick(greeting)}
    ELSE IF /\ intent \in {"request", "announcement", "message", "question"}
            /\ greeting # <<>>
            /\ tone \in {"polite", "respectful"}
    THEN {AppendPart(NoParts, e[1], "Used polite opening") : e \in pick(greeting)}
    ELSE {NoParts}

RECURSIVE FillParts(_, _, _)
\* k more iterations of `for _ in range(max(0, n - len(parts_ika)))`
FillParts(k, parts, picks) ==
    IF k <= 0 THEN {parts}
    ELSE UNION {FillParts(k - 1,
                          IF e = <<>> THEN parts ELSE AppendPart(parts, e[1], ""),
                          picks) : e \in picks}

\* naturalize: the values it can return, each with its locals
naturalize(entries, domains, intent_text, tone, length) ==
    LET intent == classify_intent(intent_text)
        greeting == GetList(domains, "greeting")
        expr == GetList(domains, "sentence.expression")
        synonym == GetList(domains, "synonym_general")
        family == GetList(domains, "synonym_family")
        pooled == greeting \o expr \o synonym \o family
        all_pool == IF pooled # <<>> THEN pooled ELSE entries
        n == Budget(length)
        picks == PickFirst(<<expr, synonym, all_pool>>)
        filled == UNION {FillParts(n - Len(o.ika), o, picks) :
                            o \in Opening(intent, tone, greeting)}
    IN  UNION {
          LET notes == IF f.notes = <<>>
                       THEN <<"Built from dataset expressions">> ELSE f.notes
              texts == IF f.ika # <<>> THEN {JoinSpace(f.ika)}
                       ELSE IF all_pool # <<>>
                            THEN {e[1].ika : e \in pick(all_pool)}
                            ELSE {<<>>}
          IN  {[res |-> [ika_text |-> t, en_back |-> JoinSpace(f.en),
                         notes |-> notes],
                locals |-> [intent |-> intent, n |-> n, parts_ika |-> f.ika,
                            parts_en |-> f.en]] : t \in texts}
          : f \in filled}

----------------------------------------------------------------------------
(* LexiconRepository queries and SlotFiller (app/lexicon_repo.py,            *)
(* app/slot_filler.py).  Slot names are texts; parts of speech and domains  *)
(* are whole strings; None is <<>> and a value v is <<v>>; a missing key,   *)
(* None and "" of a string field are all "".                                *)

FindLimit == 20

\* the slot names and the substrings the filler knows, as texts
SlotText ==
    [ Subject |-> <<"S", "u", "b", "j", "e", "c", "t">>,
      Object |-> <<"O", "b", "j", "e", "c", "t">>,
      SUBJ |-> <<"S", "U", "B", "J">>,
      OBJ_OR_COMP |-> <<"O", "B", "J", "_", "O", "R", "_", "C", "O", "M", "P">>,
      OBJ_OR_LOC |-> <<"O", "B", "J", "_", "O", "R", "_", "L", "O", "C">>,
      Connector |-> <<"C", "o", "n", "n", "e", "c", "t", "o", "r">>,
      Verb |-> <<"V", "e", "r", "b">>,
      VERB |-> <<"V", "E", "R", "B">>,
      Noun |-> <<"N", "o", "u", "n">>,
      NP |-> <<"N", "P">>,
      Adjective |-> <<"A", "d", "j", "e", "c", "t", "i", "v", "e">>,
      Adverb |-> <<"A", "d", "v", "e", "r", "b">>,
      LOC |-> <<"L", "O", "C">>,
      PHRASE |-> <<"P", "H", "R", "A", "S", "E">>,
      LEXEME_OR_PHRASE |-> <<"L", "E", "X", "E", "M", "E", "_", "O", "R", "_", "P", "H", "R", "A", "S", "E">>,
      verb |-> <<"v", "e", "r", "b">>,
      noun |-> <<"n", "o", "u", "n">>,
      np |-> <<"n", "p">>,
      adj |-> <<"a", "d", "j">>,
      adv |-> <<"a", "d", "v">>,
      Thing |-> <<"T", "h", "i", "n", "g">>,
      MainVerb |-> <<"M", "a", "i", "n", "V", "e", "r", "b">> ]


\* LexiconRepository.find_by_pos: [] when the query raises
find_by_pos(pos, domain, limit) ==
    LET HasPos(d) == d.pos = pos
        HasDomain(d) == d.domain = domain
        byPos == SelectSeq(fs_lexicon, HasPos)
    IN  IF ~fs_ok THEN <<>>
        ELSE Take(IF domain # "" THEN SelectSeq(byPos, HasDomain) ELSE byPos,
                  limit)

\* LexiconRepository.find_by_domain: [] when the query raises
find_by_domain(domain, limit) ==
    LET HasDomain(d) == d.domain = domain
    IN  IF ~fs_ok THEN <<>> ELSE Take(SelectSeq(fs_lexicon, HasDomain), limit)

\* LexiconRepository.get_all: [] when the stream raises
get_all == IF ~fs_ok THEN <<>> ELSE fs_lexicon

\* random.choice(seq) of a non-empty list
Choice(seq) == {seq[k] : k \in 1..Len(seq)}

SUBJECT_SLOTS == {SlotText.Subject, SlotText.SUBJ}
OBJECT_SLOTS == {SlotText.Object, SlotText.OBJ_OR_COMP, SlotText.OBJ_OR_LOC}

\* the test of fill_slot before it asks for a pronoun
PronounGate(slot_name) == slot_name \in {SlotText.Subject, SlotText.Object}

\* SlotFiller._get_pronoun_for_slot: the pronouns it can return
get_pronoun_for_slot(slot_name) ==
    LET pronouns_list ==
            IF slot_name \in SUBJECT_SLOTS THEN pronouns.subject_pronouns
            ELSE IF slot_name \in OBJECT_SLOTS THEN pronouns.object_pronouns
            ELSE <<>>
    IN  IF pronouns_list # <<>> THEN {<<p>> : p \in Choice(pronouns_list)}
        ELSE {<<>>}

\* SlotFiller._get_connector
get_connector ==
    IF connectors # <<>> THEN {<<c>> : c \in Choice(connectors)} ELSE {<<>>}

\* SlotFiller._infer_pos_from_slot_name
infer_pos_from_slot_name(slot_name) ==
    LET slot_lower == lower(slot_name)
    IN  IF Contains(slot_lower, SlotText.verb) \/ slot_name \in {SlotText.Verb, SlotText.VERB}
        THEN "verb"
        ELSE IF slot_name \in {SlotText.Subject, SlotText.Object, SlotText.Noun, SlotText.SUBJ,
                               SlotText.OBJ_OR_COMP, SlotText.OBJ_OR_LOC, SlotText.NP}
        THEN "noun"
        ELSE IF Contains(slot_lower, SlotText.noun) \/ Contains(slot_lower, SlotText.np)
        THEN "noun"
        ELSE IF Contains(slot_lower, SlotText.adj) \/ slot_name = SlotText.Adjective
        THEN "adjective"
        ELSE IF Contains(slot_lower, SlotText.adv) \/ slot_name = SlotText.Adverb
        THEN "adverb"
        ELSE IF slot_name \in {SlotText.LOC, SlotText.PHRASE, SlotText.LEXEME_OR_PHRASE}
        THEN "noun"
        ELSE ""

\* the dict fill_slot builds from a pronoun or a connector
ClosedItem(item, pos, file) ==
    [source_text |-> item.english, target_text |-> item.ika, pos |-> pos,
     source |-> file]

\* open-class lookups that prefer the part of speech inferred from the name
OpenClassFillInferredFirst(slot_name, slot_constraints, domain) ==
    LET given == IF slot_constraints # <<>> THEN slot_constraints[1].pos ELSE ""
        inferred == infer_pos_from_slot_name(slot_name)
        pos == IF inferred # "" THEN inferred ELSE given
        byPos == IF pos # "" THEN find_by_pos(pos, domain, FindLimit) ELSE <<>>
        byDomain == IF domain # "" THEN find_by_domain(domain, FindLimit) ELSE <<>>
    IN  IF byPos # <<>> THEN {<<c>> : c \in Choice(byPos)}
        ELSE IF byDomain # <<>> THEN {<<c>> : c \in Choice(byDomain)}
        ELSE {<<>>}

\* fill_slot from "Get POS from constraints" on: the open-class lookups
OpenClassFill(slot_name, slot_constraints, domain) ==
    LET given == IF slot_constraints # <<>> THEN slot_constraints[1].pos ELSE ""
        pos == IF given # "" THEN given ELSE infer_pos_from_slot_name(slot_name)
        byPos == IF pos # "" THEN find_by_pos(pos, domain, FindLimit) ELSE <<>>
        byDomain == IF domain # "" THEN find_by_domain(domain, FindLimit) ELSE <<>>
    IN  IF byPos # <<>> THEN {<<c>> : c \in Choice(byPos)}
        ELSE IF byDomain # <<>> THEN {<<c>> : c \in Choice(byDomain)}
        ELSE {<<>>}

\* SlotFiller.fill_slot: the values it can return
fill_slot(slot_name, slot_constraints, domain) ==
    LET pronoun == IF PronounGate(slot_name) THEN get_pronoun_for_slot(slot_name)
                   ELSE {<<>>}
        connector == IF slot_name = SlotText.Connector THEN get_connector ELSE {<<>>}
    IN  IF pronoun # {<<>>}
        THEN {<<ClosedItem(p[1], "pronoun", "pronouns.json")>> : p \in pronoun}
        ELSE IF connector # {<<>>}
        THEN {<<ClosedItem(c[1], "connector", "connectors.json")>> : c \in connector}
        ELSE OpenClassFill(slot_name, slot_constraints, domain)

RECURSIVE Flatten(_)
\* the concatenation of a list of lists
Flatten(lists) ==
    IF lists = <<>> THEN <<>> ELSE lists[1] \o Flatten(Tail(lists))

\* filled_slots[slot_name] = filled on a dict that keeps insertion order
DictSet(pairs, name, entry) ==
    IF \E k \in 1..Len(pairs) : pairs[k].name = name
    THEN [k \in 1..Len(pairs) |->
            IF pairs[k].name = name THEN [name |-> name, entry |-> entry]
            ELSE pairs[k]]
    ELSE Append(pairs, [name |-> name, entry |-> entry])

\* the name and the constraints fill_pattern_slots reads from one slot:
\* a slot is a string, a dict or something else
SlotName(slot) == IF slot.kind \in {"str", "dict"} THEN slot.name ELSE <<>>
SlotConstraints(slot) == IF slot.kind = "dict" THEN <<slot>> ELSE <<>>

\* without "if filled": an unfilled slot is kept with a placeholder
KeepPlaceholder(filled_slots, slot_name, filled) ==
    DictSet(filled_slots, slot_name,
            IF filled # <<>> THEN filled[1]
            ELSE [source_text |-> "", target_text |-> <<>>, pos |-> "",
                  source |-> "placeholder"])

\* if filled: filled_slots[slot_name] = filled
KeepFilled(filled_slots, slot_name, filled) ==
    IF filled # <<>> THEN DictSet(filled_slots, slot_name, filled[1])
    ELSE filled_slots


RECURSIVE FillFrom(_, _, _, _)
\* the loop of fill_pattern_slots from slot k on: the maps it can return
FillFrom(slots, k, filled_slots, domain) ==
    IF k > Len(slots) THEN {filled_slots}
    ELSE LET slot_name == SlotName(slots[k])
         IN  IF slot_name = <<>>
             THEN FillFrom(slots, k + 1, filled_slots, domain)
             ELSE UNION {FillFrom(slots, k + 1,
                                  KeepFilled(filled_slots, slot_name, filled),
                                  domain) :
                         filled \in fill_slot(slot_name,
                                              SlotConstraints(slots[k]), domain)}

\* SlotFiller.fill_pattern_slots: the maps it can return
fill_pattern_slots(pattern, domain) == FillFrom(pattern.slots, 1, <<>>, domain)

----------------------------------------------------------------------------
(* PatternRepository and TemplatesEngine (app/pattern_repo.py,              *)
(* app/templates_engine.py)                                                 *)

\* PatternRepository.get_pattern
get_pattern(pattern_id) ==
    LET HasId(p) == p.pattern_id = pattern_id
        found == SelectSeq(pattern_index, HasId)
    IN  IF found = <<>> THEN <<>> ELSE <<found[1]>>

FallbackPool == 5

\* [p.get("pattern_id") for p in all_patterns[:5]]
FirstPatternIds ==
    LET firsts == Take(pattern_index, FallbackPool)
    IN  [k \in 1..Len(firsts) |-> firsts[k].pattern_id]

\* length_map.get(length, 4)
NumLines(length) ==
    CASE length = "short" -> 2
      [] length = "medium" -> 4
      [] length = "long" -> 6
      [] OTHER -> 4

\* the record appended for one line of a poem (no section) or one sentence
\* of a section
Item(section_name, pattern_id, filled_slots) ==
    IF section_name = ""
    THEN [pattern_id |-> pattern_id, slots |-> filled_slots]
    ELSE [section |-> section_name, pattern_id |-> pattern_id,
          slots |-> filled_slots]

\* one pass of the loop body: nothing, or one record appended
OneItem(pattern_pool, section_name) ==
    IF pattern_pool = <<>> THEN {<<>>}
    ELSE UNION {IF pattern_id = "" \/ get_pattern(pattern_id) = <<>> THEN {<<>>}
                ELSE {<<Item(section_name, pattern_id, filled_slots)>> :
                      filled_slots \in
                          fill_pattern_slots(get_pattern(pattern_id)[1], "")} :
                pattern_id \in Choice(pattern_pool)}

RECURSIVE Repeat(_, _)
\* n passes of a loop body whose passes do not depend on each other
Repeat(once, n) ==
    IF n = 0 THEN {<<>>}
    ELSE {first \o rest : first \in once, rest \in Repeat(once, n - 1)}

\* a call of the engine returns [structure |-> ...] or raises [raised |-> ...]
Returned(structures) == {[structure |-> st] : st \in structures}

\* TemplatesEngine.generate_poem: the structures it can return
generate_poem(length) ==
    IF templates.poem_templates = <<>> THEN Returned({<<>>})
    ELSE UNION {LET pattern_pool ==
                        IF template.pattern_pool # <<>> THEN template.pattern_pool
                        ELSE FirstPatternIds
                IN  Returned(Repeat(OneItem(pattern_pool, ""),
                                    NumLines(length))) :
                template \in Choice(templates.poem_templates)}

\* section_config.get(key, default)
GetOr(opt, default) == IF opt = <<>> THEN default ELSE opt[1]

\* one section of a story or a lecture; random.randint(a, b) raises
\* ValueError when a > b
Section(section_name, section_config, min_default, max_default) ==
    LET min_sentences == GetOr(section_config.min_sentences, min_default)
        max_sentences == GetOr(section_config.max_sentences, max_default)
        once == OneItem(section_config.pattern_pool, section_name)
    IN  IF min_sentences > max_sentences THEN {[raised |-> "ValueError"]}
        ELSE Returned(UNION {Repeat(once, num_sentences) :
                             num_sentences \in min_sentences..max_sentences})

\* the sections of one template with the records of the last section first
SectionsReversed(parts) ==
    {IF "raised" \in DOMAIN a THEN a
     ELSE IF "raised" \in DOMAIN b THEN b
     ELSE IF "raised" \in DOMAIN c THEN c
     ELSE [structure |-> c.structure \o b.structure \o a.structure] :
     a \in parts[1], b \in parts[2], c \in parts[3]}

\* the sections of one template in order; the first raise ends the call
Sections(parts) ==
    {IF "raised" \in DOMAIN a THEN a
     ELSE IF "raised" \in DOMAIN b THEN b
     ELSE IF "raised" \in DOMAIN c THEN c
     ELSE [structure |-> a.structure \o b.structure \o c.structure] :
     a \in parts[1], b \in parts[2], c \in parts[3]}

\* TemplatesEngine.generate_story
generate_story ==
    IF templates.story_templates = <<>> THEN Returned({<<>>})
    ELSE UNION {Sections(<<Section("opening", template.opening, 1, 3),
                           Section("conflict", template.conflict, 1, 3),
                           Section("resolution", template.resolution, 1, 3)>>) :
                template \in Choice(templates.story_templates)}

\* TemplatesEngine.generate_lecture
generate_lecture ==
    IF templates.lecture_templates = <<>> THEN Returned({<<>>})
    ELSE UNION {Sections(<<Section("intro", template.intro, 2, 5),
                           Section("explain", template.explain, 2, 5),
                           Section("summary", template.summary, 2, 5)>>) :
                template \in Choice(templates.lecture_templates)}

----------------------------------------------------------------------------
(* Generator.generate (app/generator.py).  topic and tone are copied into   *)
(* meta and read nowhere else; they are left out.                           *)

FallbackWords == 5

\* Generator._fallback_generation
fallback_generation ==
    LET HasTarget(e) == e.target_text # <<>>
        general == find_by_domain("general", FallbackWords)
        entries == IF general # <<>> THEN general ELSE Take(get_all, FallbackWords)
        kept == SelectSeq(entries, HasTarget)
    IN  JoinSpace([k \in 1..Len(kept) |-> kept[k].target_text])

\* the slots of one item that have a target text, in the order of the map
UsedSlots(item) ==
    LET Used(pair) == pair.entry.target_text # <<>>
    IN  SelectSeq(item.slots, Used)

\* the record generate appends to lexicon_entries_used
UsedEntry(pair) ==
    [doc_id |-> IF "doc_id" \in DOMAIN pair.entry THEN pair.entry.doc_id ELSE "",
     source |-> pair.entry.source_text,
     target |-> pair.entry.target_text,
     slot |-> pair.name]

\* the sentence of one item: <<>> when no part was collected
SentenceOf(item) ==
    LET used == UsedSlots(item)
    IN  IF used = <<>> THEN <<>>
        ELSE <<JoinSpace([k \in 1..Len(used) |-> used[k].entry.target_text])>>

\* pattern_ids_used.append(pattern_id) for every item that has a pattern id
ListedEveryItem(structure) ==
    LET HasId(item) == item.pattern_id # ""
        items == SelectSeq(structure, HasId)
    IN  [k \in 1..Len(items) |-> items[k].pattern_id]

\* lexicon_entries_used with the target texts: the entry of every used slot
EntriesUsed(items) ==
    Flatten([k \in 1..Len(items) |->
                [j \in 1..Len(UsedSlots(items[k])) |->
                    UsedEntry(UsedSlots(items[k])[j])]])

\* the loop of generate over the structure and the return value
generate_from(kind, length, structure) ==
    LET Found(item) ==
            item.pattern_id # "" /\ get_pattern(item.pattern_id) # <<>>
        items == SelectSeq(structure, Found)
        ika_sentences == Flatten([k \in 1..Len(items) |-> SentenceOf(items[k])])
        ika_text == JoinSpace(ika_sentences)
    IN  [res |-> [text |-> IF ika_text = <<>> THEN fallback_generation
                           ELSE ika_text,
                  meta |-> [kind |-> kind, length |-> length,
                            pattern_ids |-> ListedEveryItem(structure),
                            lexicon_entries |-> EntriesUsed(items)]],
         locals |-> [structure |-> structure, ika_sentences |-> ika_sentences,
                     ika_text |-> ika_text]]

\* Generator.generate: the values it can return and the errors it can raise
generate(kind, length) ==
    LET outcomes ==
            CASE kind = "poem" -> generate_poem(length)
              [] kind = "story" -> generate_story
              [] kind = "lecture" -> generate_lecture
              [] OTHER -> {[raised |-> "ValueError"]}
    IN  {IF "raised" \in DOMAIN o THEN [res |-> o, locals |-> <<>>]
         ELSE generate_from(kind, length, o.structure) :
         o \in outcomes}

----------------------------------------------------------------------------
(* Generator.translate (app/generator.py), with                             *)
(* LexiconRepository.find_by_source_text and RuleEngine.apply_tense         *)

\* s.split(): the maximal runs of non-whitespace characters, left to right
SplitWords(s) ==
    LET starts == {p \in 1..Len(s) :
                      s[p] \notin Whitespace /\ (p = 1 \/ s[p - 1] \in Whitespace)}
        StartAt(k) == CHOOSE p \in starts : Cardinality({q \in starts : q <= p}) = k
        EndOf(p) == SetMax({q \in p..Len(s) : \A j \in p..q : s[j] \notin Whitespace})
    IN  [k \in 1..Cardinality(starts) |-> SubSeq(s, StartAt(k), EndOf(StartAt(k)))]

\* LexiconRepository.find_by_source_text: the query on source_text_lc, then
\* the scan of the collection; None when both raise
find_by_source_text(source_text) ==
    LET source_lower == strip(lower(source_text))
        ByField(d) == "source_text_lc" \in DOMAIN d /\ d.source_text_lc = source_lower
        BySource(d) == lower(d.source_text) = source_lower
        docs == SelectSeq(fs_lexicon, ByField)
        scanned == SelectSeq(fs_lexicon, BySource)
    IN  IF ~fs_ok THEN <<>>
        ELSE IF docs # <<>> THEN <<docs[1]>>
        ELSE IF scanned # <<>> THEN <<scanned[1]>>
        ELSE <<>>

\* RuleEngine.apply_tense
apply_tense(text, tense) ==
    LET marker == IF tense \in DOMAIN rules THEN rules[tense] ELSE <<>>
    IN  IF marker # <<>> THEN strip(marker \o <<" ">> \o text) ELSE text

\* a translation that drops the words it does not find
WordDropped(word, entry) ==
    IF entry # <<>> /\ entry[1].target_text # <<>>
    THEN <<entry[1].target_text>> ELSE <<>>

\* translated_words.append(...) for one word: its target text, or the word
WordTranslated(word, entry) ==
    IF entry # <<>> /\ entry[1].target_text # <<>>
    THEN <<entry[1].target_text>> ELSE <<word>>

\* Generator.translate
generator_translate(text, tense, mode) ==
    LET words == SplitWords(lower(text))
        Hit(k) == LET entry == find_by_source_text(words[k])
                  IN  entry # <<>> /\ entry[1].target_text # <<>>
        translated_words ==
            Flatten([k \in 1..Len(words) |->
                        WordTranslated(words[k], find_by_source_text(words[k]))])
        hits == SelectSeq([k \in 1..Len(words) |-> k], Hit)
        joined == JoinSpace(translated_words)
    IN  [text |-> IF tense # "present" THEN apply_tense(joined, tense) ELSE joined,
         meta |-> [pattern_ids |-> <<>>,
                   lexicon_entries |->
                       [n \in 1..Len(hits) |->
                           LET entry == find_by_source_text(words[hits[n]])[1]
                           IN  [doc_id |-> entry.doc_id,
                                source |-> entry.source_text,
                                target |-> entry.target_text]],
                   tense |-> tense, mode |-> mode]]

----------------------------------------------------------------------------
(* app/validators.py and startup_event (app/main.py)                        *)

BANNED_TOKENS ==
    { <<"a", "k", "w", "u", "k", "w", "o">>, <<"a", "n", "y", "i">>,
      <<"u", "m", "u", "n", "n", "a">>, <<"g", "a", " ", "e", "j", "e">>,
      <<"y", "a", " ", "m", "e", "r", "e">>, <<"m", "g", "b", "e">> }

\* validate_grammar_patterns: the errors of one pattern, as a set
PatternErrors(pattern) ==
    {[error |-> "example_language", pattern_id |-> pattern.pattern_id] :
        x \in {1} \cap {IF "example_language" \in DOMAIN pattern THEN 1 ELSE 0}}
    \cup {[error |-> "banned token", pattern_id |-> pattern.pattern_id] :
            b \in {t \in BANNED_TOKENS :
                      /\ "example" \in DOMAIN pattern
                      /\ Contains(lower(pattern.example), t)}}
    \cup {[error |-> "missing pattern_id", pattern_id |-> ""] :
            x \in {1} \cap {IF pattern.pattern_id = "" THEN 1 ELSE 0}}

\* validate_grammar_patterns over the patterns of the file
validate_grammar_patterns ==
    UNION {PatternErrors(pattern_index[k]) : k \in 1..Len(pattern_index)}

\* check_pattern_pool: an error for every id pattern_repo.has_pattern denies
check_pattern_pool(pattern_pool, context) ==
    {[error |-> context, pattern_id |-> pattern_pool[k]] :
        k \in {j \in 1..Len(pattern_pool) : get_pattern(pattern_pool[j]) = <<>>}}

\* validate_templates: the pools of the poem templates and of the three
\* sections of every story and lecture template
validate_templates ==
    UNION {check_pattern_pool(templates.poem_templates[k].pattern_pool,
                              "poem_templates") :
           k \in 1..Len(templates.poem_templates)}
    \cup UNION {check_pattern_pool(templates.story_templates[k][section].pattern_pool,
                                   "story_templates") :
                k \in 1..Len(templates.story_templates),
                section \in {"opening", "conflict", "resolution"}}
    \cup UNION {check_pattern_pool(templates.lecture_templates[k][section].pattern_pool,
                                   "lecture_templates") :
                k \in 1..Len(templates.lecture_templates),
                section \in {"intro", "explain", "summary"}}

\* validate_on_startup: all_errors; it raises ValueError when there is one
validate_on_startup == validate_grammar_patterns \cup validate_templates

----------------------------------------------------------------------------
(* POST /translate (app/main.py) with phrasebank_translate and              *)
(* phrasebank_ika_to_en_fuzzy.  The global store is the LexiconStore when   *)
(* st_loaded and None otherwise.                                            *)

\* (req.mode or "rule_based").lower(); a mode is a whole string here
ModeOf(mode) ==
    CASE mode = "" -> "rule_based"
      [] mode = "AUTO" -> "auto"
      [] mode = "En_To_Ika" -> "en_to_ika"
      [] OTHER -> mode

\* PhraseBank._items after load_default_phrasebank()
LoadedItems == SortDesc(FilterItems(raw_items), <<>>)

RECURSIVE ChunkLoop(_, _, _, _)
\* the while loop of PhraseBank.chunk run to its end: ika_out
ChunkLoop(trie, toks, at, out) ==
    IF at < Len(toks)
    THEN LET found == find_longest_at(trie, toks, at)
         IN  ChunkLoop(trie, toks, Advance(at, found), Emit(out, found))
    ELSE out

\* phrasebank_translate: the text it returns
phrasebank_translate(trie, en_text) ==
    JoinChunks(ChunkLoop(trie, tokenize_en(en_text), 0, <<>>))

\* phrasebank_ika_to_en_fuzzy: None is <<>>
phrasebank_ika_to_en_fuzzy(map, text_ika) ==
    LET parts == SplitWords(lower(strip(text_ika)))
        str == JoinSpace(parts)
        Known(part) == part \in DOMAIN map
        mapped == SelectSeq(parts, Known)
    IN  IF text_ika = <<>> \/ str = <<>> THEN <<>>
        ELSE IF str \in DOMAIN map THEN map[str]
        ELSE JoinSpace([k \in 1..Len(mapped) |-> map[mapped[k]]])

\* _is_not_found_en (the second definition replaces the first)
is_not_found_en(en_text) ==
    LET t == lower(strip(en_text))
    IN  \/ t = <<>>
        \/ t = lower(NotFoundText)
        \/ t = <<"n", "o", "t", " ", "f", "o", "u", "n", "d">>

\* _english_meaning_for_ika_output
english_meaning_for_ika_output(produced_ika_text, source_text) ==
    IF st_loaded THEN translate_ika_to_en(st_ika_to_en, produced_ika_text).res
    ELSE strip(source_text)

\* _make_response, with the engine of legacy_meta
make_response(ika_text, english_meaning, engine) ==
    [status |-> 200, ika_text |-> ika_text, english_meaning |-> english_meaning,
     engine |-> engine]

\* raise HTTPException(status_code=...)
HTTPException(status_code) == [status |-> status_code]

\* one engine asked by the handler: what it gave, whether that was a match
\* of the text asked for, and whether it raised
Stage(engine, gave, matched, raised) ==
    [engine |-> engine, gave |-> gave, matched |-> matched, raised |-> raised]

\* the Ika to English branch of the dataset path; _ika_to_en_map() raises
\* when the phrasebank file cannot be read and the handler answers 500
IkaToEnPath(text_in, before) ==
    LET en_text == translate_ika_to_en(st_ika_to_en, text_in).res
        found == ~is_not_found_en(en_text)
        dataset == Stage("dataset", en_text, found, FALSE)
        pb_en == phrasebank_ika_to_en_fuzzy(BuildIkaEnMap(LoadedItems), text_in)
    IN  IF found
        THEN [response |-> make_response(text_in, strip(en_text), "dataset"),
              stages |-> before \o <<dataset>>]
        ELSE IF ~env.phrasebank
        THEN [response |-> HTTPException(500),
              stages |-> before \o <<dataset, Stage("phrasebank_fuzzy", <<>>, FALSE, TRUE)>>]
        ELSE IF strip(pb_en) # <<>>
        THEN [response |-> make_response(text_in, strip(pb_en), "phrasebank"),
              stages |-> before \o <<dataset, Stage("phrasebank_fuzzy", pb_en, TRUE, FALSE)>>]
        ELSE [response |-> make_response(text_in, strip(en_text), "dataset"),
              stages |-> before \o <<dataset, Stage("phrasebank_fuzzy", pb_en, FALSE, FALSE)>>]

\* the English to Ika branch of the dataset path: one outcome for every
\* entry translate_en_to_ika_sentence can draw
EnToIkaPath(text_in, before) ==
    {[response |-> make_response(r.res, text_in, "dataset"),
      stages |-> before \o <<Stage("dataset", r.res, r.locals.hits # <<>>, FALSE)>>] :
     r \in translate_en_to_ika_sentence(st_entries, by_domain, st_en_to_ika, text_in)}

\* the rule-based path; generator.translate on None raises and the handler
\* answers 500
RuleBasedPath(req, text_in, before) ==
    LET result == generator_translate(text_in, req.tense, req.mode)
        ika_text == strip(result.text)
    IN  IF generator = "None"
        THEN [response |-> HTTPException(500),
              stages |-> before \o <<Stage("rule_based", <<>>, FALSE, TRUE)>>]
        ELSE [response |-> make_response(ika_text,
                               english_meaning_for_ika_output(ika_text, text_in),
                               "rule_based"),
              stages |-> before
                  \o <<Stage("rule_based", ika_text,
                             result.meta.lexicon_entries # <<>>, FALSE)>>]

\* a handler that asks the dataset even when the chunker gave a text
translate_dataset_first(req) ==
    LET mode == ModeOf(req.mode)
        text_in == strip(req.text)
        is_ika == st_loaded /\ is_ika_text(ika_token_set, text_in)
        asks == mode \in {"en_to_ika", "auto"} /\ ~is_ika
        pb_ika == IF env.phrasebank
                  THEN phrasebank_translate(BuildTrie(LoadedItems, EmptyTrie), text_in)
                  ELSE <<>>
        before == IF asks
                  THEN <<Stage("phrasebank", pb_ika, strip(pb_ika) # <<>>,
                               ~env.phrasebank)>>
                  ELSE <<>>
    IN  IF text_in = <<>>
        THEN {[response |-> HTTPException(422), stages |-> <<>>]}
        ELSE IF ~st_loaded /\ generator = "None"
        THEN {[response |-> HTTPException(503), stages |-> <<>>]}
        ELSE IF st_loaded /\ mode \in {"auto", "en_to_ika", "ika_to_en"}
        THEN IF mode = "ika_to_en" \/ (mode = "auto" /\ is_ika)
             THEN {IkaToEnPath(text_in, before)}
             ELSE EnToIkaPath(text_in, before)
        ELSE IF asks /\ strip(pb_ika) # <<>>
        THEN {[response |-> make_response(strip(pb_ika), text_in, "phrasebank"),
               stages |-> before]}
        ELSE {RuleBasedPath(req, text_in, before)}

\* translate: the responses it can give, each with the engines it asked
translate(req) ==
    LET mode == ModeOf(req.mode)
        text_in == strip(req.text)
        is_ika == st_loaded /\ is_ika_text(ika_token_set, text_in)
        asks == mode \in {"en_to_ika", "auto"} /\ ~is_ika
        pb_ika == IF env.phrasebank
                  THEN phrasebank_translate(BuildTrie(LoadedItems, EmptyTrie), text_in)
                  ELSE <<>>
        before == IF asks
                  THEN <<Stage("phrasebank", pb_ika, strip(pb_ika) # <<>>,
                               ~env.phrasebank)>>
                  ELSE <<>>
    IN  IF text_in = <<>>
        THEN {[response |-> HTTPException(422), stages |-> <<>>]}
        ELSE IF ~st_loaded /\ generator = "None"
        THEN {[response |-> HTTPException(503), stages |-> <<>>]}
        ELSE IF asks /\ strip(pb_ika) # <<>>
        THEN {[response |-> make_response(strip(pb_ika), text_in, "phrasebank"),
               stages |-> before]}
        ELSE IF st_loaded /\ mode \in {"auto", "en_to_ika", "ika_to_en"}
        THEN IF mode = "ika_to_en" \/ (mode = "auto" /\ is_ika)
             THEN {IkaToEnPath(text_in, before)}
             ELSE EnToIkaPath(text_in, before)
        ELSE {RuleBasedPath(req, text_in, before)}

----------------------------------------------------------------------------
(* SSML helpers (app/tts/ssml.py).  A dictionary is a function from keys to *)
(* transcriptions; None is <<>> and a value v is <<v>>.                     *)

\* a character matched by \w
IsWordChar(c) ==
    c \in LowerLetters \cup UpperLetters
           \cup {"0", "1", "2", "3", "4", "5", "6", "7", "8", "9", "_"}

\* the alternative of (\s+|[^\w\s]|\w+) that matches the character
CharClass(c) ==
    IF c \in Whitespace THEN "space"
    ELSE IF IsWordChar(c) THEN "word"
    ELSE "other"

FALLBACK_IPA ==
    (<<"a">> :> <<"a">>) @@
    (<<"e">> :> <<"e">>) @@
    (<<"i">> :> <<"i">>) @@
    (<<"o">> :> <<"o">>) @@
    (<<"u">> :> <<"u">>) @@
    (<<"n">> :> <<"n">>) @@
    (<<"m">> :> <<"m">>) @@
    (<<"b">> :> <<"b">>) @@
    (<<"k">> :> <<"k">>) @@
    (<<"d">> :> <<"d">>) @@
    (<<"g">> :> <<"g">>) @@
    (<<"y", "a">> :> <<"j", "a">>) @@
    (<<"n", "d", "e">> :> <<"n", "d", "e">>) @@
    (<<"b", "i", "k", "o">> :> <<"b", "i", "k", "o">>)

\* the entities of _escape_ssml
Entity ==
    [ amp |-> <<"&", "a", "m", "p", ";">>,
      lt |-> <<"&", "l", "t", ";">>,
      gt |-> <<"&", "g", "t", ";">>,
      quot |-> <<"&", "q", "u", "o", "t", ";">> ]

\* str.replace(c, entity) for a one-character c
Replace(str, c, entity) ==
    Flatten([k \in 1..Len(str) |-> IF str[k] = c THEN entity ELSE <<str[k]>>])

\* the replacements with the ampersand last: the entities are escaped again
escape_amp_last(str) ==
    Replace(Replace(Replace(Replace(str, "<", Entity.lt), ">", Entity.gt),
                    "\"", Entity.quot),
            "&", Entity.amp)

\* _escape_ssml
escape_ssml(str) ==
    Replace(Replace(Replace(Replace(str, "&", Entity.amp), "<", Entity.lt),
                    ">", Entity.gt),
            "\"", Entity.quot)

\* pattern.findall(text): every character starts a token unless it goes on
\* a run of whitespace or of word characters
FindAllTokens(text) ==
    LET starts == {k \in 1..Len(text) :
                      \/ k = 1
                      \/ CharClass(text[k]) = "other"
                      \/ CharClass(text[k]) # CharClass(text[k - 1])}
        TokenAt(nth) ==
            CHOOSE k \in starts : Cardinality({j \in starts : j < k}) = nth - 1
        TokenEnd(k) == IF \E j \in starts : j > k
                       THEN SetMin({j \in starts : j > k}) - 1
                       ELSE Len(text)
    IN  [nth \in 1..Cardinality(starts) |->
            SubSeq(text, TokenAt(nth), TokenEnd(TokenAt(nth)))]

\* a tokenizer that keeps no whitespace token
tokenize_no_spaces(text) ==
    LET NotSpace(t) == strip(t) # <<>>
    IN  SelectSeq(FindAllTokens(text), NotSpace)

\* tokenize_words
tokenize_words(text) ==
    IF text = <<>> \/ strip(text) = <<>> THEN <<>>
    ELSE SelectSeq(FindAllTokens(text), NonEmpty)

\* dict.get(key)
DictGet(d, key) == IF key \in DOMAIN d THEN <<d[key]>> ELSE <<>>

\* a lookup that asks the fallback table before the dictionary
word_to_ipa_fallback_first(word, ipa_dict) ==
    LET key == strip(lower(word))
        out == DictGet(FALLBACK_IPA, key)
    IN  IF key = <<>> THEN <<>>
        ELSE IF out # <<>> THEN out
        ELSE DictGet(ipa_dict, key)

\* word_to_ipa
word_to_ipa(word, ipa_dict) ==
    LET key == strip(lower(word))
        out == DictGet(ipa_dict, key)
    IN  IF key = <<>> THEN <<>>
        ELSE IF out # <<>> THEN out
        ELSE DictGet(FALLBACK_IPA, key)

\* the markup text_to_ssml_with_phonemes writes itself
Tag ==
    [ phoneme_open |-> <<"<", "p", "h", "o", "n", "e", "m", "e", " ", "a", "l", "p", "h", "a", "b", "e", "t", "=", "\"", "i", "p", "a", "\"", " ", "p", "h", "=", "\"">>,
      phoneme_mid |-> <<"\"", ">">>,
      phoneme_close |-> <<"<", "/", "p", "h", "o", "n", "e", "m", "e", ">">>,
      speak_open |-> <<"<", "s", "p", "e", "a", "k", ">">>,
      speak_close |-> <<"<", "/", "s", "p", "e", "a", "k", ">">> ]

\* the part text_to_ssml_with_phonemes appends for one token
SsmlPart(t, ipa_dict) ==
    LET ipa == word_to_ipa(t, ipa_dict)
    IN  IF strip(t) = <<>> THEN t
        ELSE IF \A k \in 1..Len(t) : ~IsWordChar(t[k]) THEN escape_ssml(t)
        ELSE IF ipa # <<>> /\ ipa[1] # <<>>
        THEN Tag.phoneme_open \o escape_ssml(ipa[1]) \o Tag.phoneme_mid \o escape_ssml(t)
                \o Tag.phoneme_close
        ELSE escape_ssml(t)

\* text_to_ssml_with_phonemes
text_to_ssml_with_phonemes(text, ipa_dict) ==
    LET toks == tokenize_words(text)
    IN  IF strip(text) = <<>> THEN Tag.speak_open \o Tag.speak_close
        ELSE Tag.speak_open
                \o Flatten([k \in 1..Len(toks) |-> SsmlPart(toks[k], ipa_dict)])
                \o Tag.speak_close

\* text_to_ssml with the dictionary already loaded
text_to_ssml(text, ipa_dict) ==
    IF strip(text) = <<>> THEN Tag.speak_open \o Tag.speak_close
    ELSE text_to_ssml_with_phonemes(text, ipa_dict)

\* load_ipa_dictionary: the cache after the call
load_ipa_dictionary ==
    IF ipa_dict_cache # <<>> THEN ipa_dict_cache
    ELSE IF ipa_file # <<>> THEN ipa_file
    ELSE <<<<>>>>

----------------------------------------------------------------------------
(* Components at rest                                                       *)

\* the dataset store before get_store() and before any call
StoreIdle ==
    /\ st_export = <<>>
    /\ st_dict = <<>>
    /\ st_loaded = FALSE
    /\ st_entries = <<>>
    /\ by_domain = <<>>
    /\ st_en_to_ika = <<>>
    /\ st_ika_to_en = <<>>
    /\ ika_token_set = {}
    /\ dg_call = "none"
    /\ dg_args = <<>>
    /\ dg_result = <<>>
    /\ dg_locals = <<>>
    /\ rl_pc = "idle"
    /\ rl_entries = <<>>
    /\ rl_i = 0

GenIdle ==
    /\ fs_lexicon = <<>>
    /\ fs_ok = TRUE
    /\ pronouns = [subject_pronouns |-> <<>>, object_pronouns |-> <<>>]
    /\ connectors = <<>>
    /\ pattern_index = <<>>
    /\ templates = [poem_templates |-> <<>>, story_templates |-> <<>>,
                    lecture_templates |-> <<>>]
    /\ gen_call = "none"
    /\ gen_args = <<>>
    /\ gen_result = <<>>
    /\ gen_locals = <<>>
    /\ rules = <<>>

SsmlIdle ==
    /\ ipa_file = <<>>
    /\ ipa_dict_cache = <<>>
    /\ ss_call = "none"
    /\ ss_args = <<>>
    /\ ss_result = <<>>

\* the process as a component is looked at on its own: no request arrives
ApiIdle ==
    /\ env = [phrasebank |-> TRUE, firebase |-> TRUE, dataset |-> TRUE]
    /\ started = FALSE
    /\ validation = "not run"
    /\ generator = "None"
    /\ tr_call = "none"
    /\ tr_req = <<>>
    /\ tr_response = <<>>
    /\ tr_stages = <<>>

AudioIdle ==
    /\ bucket = <<>>
    /\ au_call = "none"
    /\ au_args = <<>>
    /\ au_result = <<>>

----------------------------------------------------------------------------
(* The lexicon service as a state machine                                   *)

\* the phrase matcher, unused
PhraseIdle ==
    /\ raw_items = <<>>
    /\ pb_loaded = FALSE
    /\ pb_items = <<>>
    /\ pb_trie = EmptyTrie
    /\ map_built = FALSE
    /\ ika_en_map = <<>>
    /\ pc = "idle"
    /\ tokens = <<>>
    /\ i = 0
    /\ matches = <<>>
    /\ ika_out = <<>>
    /\ pb_text = <<>>

\* LexiconService.__init__ over exports built by the two scripts;
\* ika_to_en.json is optional
InitLex ==
    /\ PhraseIdle
    /\ StoreIdle
    /\ GenIdle
    /\ SsmlIdle
    /\ ApiIdle
    /\ AudioIdle
    /\ lexicon_json \in Lexicons
    /\ exact_file = BuildExact(lexicon_json, <<>>)
    /\ ika_file \in {[exists |-> TRUE, pairs |-> BuildIkaToEn(lexicon_json, <<>>)],
                     [exists |-> FALSE, pairs |-> <<>>]}
    /\ ls_loaded = FALSE
    /\ exact_en = <<>>
    /\ en_keys_sorted = <<>>
    /\ ika_to_en = <<>>
    /\ lk_call = "none"
    /\ lk_text = <<>>
    /\ lk_result = <<>>
    /\ lk_locals = <<>>

\* the indices after self.load(): read from the files on the first call,
\* left as they are afterwards
AfterLoad ==
    /\ ls_loaded' = TRUE
    /\ exact_en' = IF ls_loaded THEN exact_en ELSE exact_file
    /\ en_keys_sorted' = IF ls_loaded THEN en_keys_sorted
                         ELSE SortedKeys(DOMAIN exact_file)
    /\ ika_to_en' = IF ls_loaded THEN ika_to_en
                    ELSE IF ika_file.exists THEN ika_file.pairs ELSE <<>>

\* svc.load() called on its own
LoadLexicon ==
    /\ ~ls_loaded
    /\ lk_call = "none"
    /\ AfterLoad
    /\ UNCHANGED <<lexicon_json, exact_file, ika_file, lk_call, lk_text,
                   lk_result, lk_locals>>
    /\ UNCHANGED lexOthers

\* a request: lookup_en_to_ika(text), up to its return statement
LookupEn(text) ==
    /\ lk_call = "none"
    /\ AfterLoad
    /\ \E r \in {lookup_en_to_ika(exact_en', en_keys_sorted', text)} :
          /\ lk_result' = r.res
          /\ lk_locals' = r.locals
    /\ lk_call' = "en"
    /\ lk_text' = text
    /\ UNCHANGED <<lexicon_json, exact_file, ika_file>>
    /\ UNCHANGED lexOthers

\* a request: lookup_ika_to_en(text), up to its return statement
LookupIka(text) ==
    /\ lk_call = "none"
    /\ AfterLoad
    /\ \E r \in {lookup_ika_to_en(ika_to_en', text)} :
          /\ lk_result' = r.res
          /\ lk_locals' = r.locals
    /\ lk_call' = "ika"
    /\ lk_text' = text
    /\ UNCHANGED <<lexicon_json, exact_file, ika_file>>
    /\ UNCHANGED lexOthers

\* the lookup has returned: its locals are gone, the service is as it was
LookupDone ==
    /\ lk_call # "none"
    /\ lk_call' = "none"
    /\ lk_text' = <<>>
    /\ lk_result' = <<>>
    /\ lk_locals' = <<>>
    /\ UNCHANGED <<lexicon_json, exact_file, ika_file, ls_loaded, exact_en,
                   en_keys_sorted, ika_to_en>>
    /\ UNCHANGED lexOthers

NextLex ==
    \/ LoadLexicon
    \/ \E text \in EnQueries : LookupEn(text)
    \/ \E text \in IkaQueries : LookupIka(text)
    \/ LookupDone

SpecLex == InitLex /\ [][NextLex]_vars

----------------------------------------------------------------------------
(* The phrase matcher as a state machine                                    *)

\* the lexicon service before its files are read and before any lookup
LexiconIdle ==
    /\ lexicon_json = <<>>
    /\ exact_file = <<>>
    /\ ika_file = [exists |-> FALSE, pairs |-> <<>>]
    /\ ls_loaded = FALSE
    /\ exact_en = <<>>
    /\ en_keys_sorted = <<>>
    /\ ika_to_en = <<>>
    /\ lk_call = "none"
    /\ lk_text = <<>>
    /\ lk_result = <<>>
    /\ lk_locals = <<>>

InitPhrase ==
    /\ LexiconIdle
    /\ StoreIdle
    /\ GenIdle
    /\ SsmlIdle
    /\ ApiIdle
    /\ AudioIdle
    /\ raw_items \in Datasets
    /\ pb_loaded = FALSE
    /\ pb_items = <<>>
    /\ pb_trie = EmptyTrie
    /\ map_built = FALSE
    /\ ika_en_map = <<>>
    /\ pc = "idle"
    /\ tokens = <<>>
    /\ i = 0
    /\ matches = <<>>
    /\ ika_out = <<>>
    /\ pb_text = <<>>

\* PhraseBank.load(path) followed by PhraseBank.__init__ (get_phrasebank)
Load ==
    /\ ~pb_loaded
    /\ LET items == SortDesc(FilterItems(raw_items), <<>>)
       IN  /\ pb_items' = items
           /\ pb_trie' = BuildTrie(items, EmptyTrie)
    /\ pb_loaded' = TRUE
    /\ UNCHANGED <<raw_items, map_built, ika_en_map, pc, tokens, i, matches,
                   ika_out, pb_text>>
    /\ UNCHANGED pbOthers

\* the first call of _ika_to_en_map(), made by a request of its own (no
\* request runs inside the loop of chunk); lru_cache keeps the result
IkaToEnMapCall ==
    /\ pb_loaded
    /\ pc \in {"idle", "done"}
    /\ ~map_built
    /\ map_built' = TRUE
    /\ ika_en_map' = BuildIkaEnMap(pb_items)
    /\ UNCHANGED <<raw_items, pb_loaded, pb_items, pb_trie, pc, tokens, i,
                   matches, ika_out, pb_text>>
    /\ UNCHANGED pbOthers

\* chunk(english_text) up to the loop
ChunkBegin(text) ==
    /\ pb_loaded
    /\ pc \in {"idle", "done"}
    /\ tokens' = tokenize_en(text)
    /\ i' = 0
    /\ matches' = <<>>
    /\ ika_out' = <<>>
    /\ pb_text' = <<>>
    /\ pc' = "chunking"
    /\ UNCHANGED <<raw_items, pb_loaded, pb_items, pb_trie, map_built, ika_en_map>>
    /\ UNCHANGED pbOthers

\* one iteration of the while loop of chunk
ChunkStep ==
    /\ pc = "chunking"
    /\ i < Len(tokens)
    /\ LET found == find_longest_at(pb_trie, tokens, i)
       IN  /\ matches' = RecordMatch(matches, found, i)
           /\ ika_out' = Emit(ika_out, found)
           /\ i' = Advance(i, found)
    /\ UNCHANGED <<raw_items, pb_loaded, pb_items, pb_trie, map_built, ika_en_map,
                   pc, tokens, pb_text>>
    /\ UNCHANGED pbOthers

\* the loop exit of chunk and the join of phrasebank_translate
ChunkReturn ==
    /\ pc = "chunking"
    /\ ~(i < Len(tokens))
    /\ pc' = "done"
    /\ pb_text' = JoinChunks(ika_out)
    /\ UNCHANGED <<raw_items, pb_loaded, pb_items, pb_trie, map_built, ika_en_map,
                   tokens, i, matches, ika_out>>
    /\ UNCHANGED pbOthers

NextPhrase ==
    \/ Load
    \/ IkaToEnMapCall
    \/ \E text \in TextPool : ChunkBegin(text)
    \/ ChunkStep
    \/ ChunkReturn

SpecPhrase == InitPhrase /\ [][NextPhrase]_vars

SpecPhraseFair == SpecPhrase /\ WF_vars(ChunkStep) /\ WF_vars(ChunkReturn)

----------------------------------------------------------------------------
(* Inputs of the dataset store                                              *)

MaxDocs == 10
MaxDictEntries == 2
MaxTokens == 20
MaxPieces == 2

\* raw["docs"] of data/firestore_lexicon_export.json
ExportDocs ==
    << [domain |-> "general", source_text |-> <<"a", " ", "b">>, target_text |-> <<"x">>],
       [domain |-> "sentence.svo", source_text |-> <<" ", "A", " ", "B", " ">>, target_text |-> <<"y", " ">>],
       [domain |-> " greeting ", source_text |-> <<"H", "i">>, target_text |-> <<"x", "'", "y">>],
       [domain |-> "greeting", source_text |-> <<"I", " ", "a", "m", " ", "S", "o", "r", "r", "y">>, target_text |-> <<"y", "-", "x">>],
       [domain |-> "sentence.expression", source_text |-> <<"c">>, target_text |-> <<"X", " ", "Y">>],
       [domain |-> "  ", source_text |-> <<"b">>, target_text |-> <<"b">>],
       [domain |-> "general", source_text |-> <<"b">>, target_text |-> <<" ">>],
       [domain |-> "synonym_general", source_text |-> <<"a", " ", " ", "b">>, target_text |-> <<"x", " ", "x">>],
       [domain |-> "sentence.expression", source_text |-> <<"b">>, target_text |-> <<"y">>],
       [domain |-> "synonym_family", source_text |-> <<"c">>, target_text |-> <<"x">>] >>

\* ika_raw["entries"] of data/ika_dictionary.json
DictEntries ==
    << [domain |-> "general", source_text |-> <<"A", " ", "b">>, target_text |-> <<"y", " ", "y">>],
       [domain |-> "greeting", source_text |-> <<"a", " ", "b">>, target_text |-> <<"c">>] >>

Prefixes(seq, n) == {SubSeq(seq, 1, k) : k \in 0..(IF n < Len(seq) THEN n ELSE Len(seq))}

EnglishQueries ==
    {<<"a", " ", "b">>,
     <<"A", " ", "B">>,
     <<" ", "a", " ", "b", "\t">>,
     <<"a", " ", " ", "b">>,
     <<"A", " ", "\t", "b">>,
     <<"b">>,
     <<"c">>,
     <<"q">>,
     <<>>,
     <<"h", "i">>,
     <<"I", " ", "A", "M", " ", "S", "O", "R", "R", "Y">>}

IkaTextQueries ==
    {<<"x">>,
     <<" ", "X">>,
     <<"x", " ", "x">>,
     <<"x", " ", " ", "X">>,
     <<"y">>,
     <<"Y", "-", "X">>,
     <<"q">>,
     <<>>}

\* hit tokens "x" followed by miss tokens "q", each followed by a space
MixText(hit, miss) ==
    [k \in 1..(2 * (hit + miss)) |->
        IF k % 2 = 0 THEN " " ELSE IF (k + 1) \div 2 <= hit THEN "x" ELSE "q"]

\* texts: a few written out, 17 of 50 and 35 of 100 tokens, and every mix of
\* at most MaxTokens tokens
DetectTexts ==
    {<<>>, <<" ", " ">>, <<"1", " ", "2">>, <<"X">>, <<"x", "'", "y">>, <<"x", "-", "y">>, <<"y", "-", "-", "x">>,
     MixText(17, 33), MixText(35, 65)}
    \cup {MixText(p[1], p[2]) :
            p \in {q \in (0..MaxTokens) \X (0..MaxTokens) : q[1] + q[2] \in 1..MaxTokens}}

IntentPieces ==
    {<<"s", "o", "r", "r", "y">>,
     <<"P", "l", "e", "a", "s", "e">>,
     <<"h", "i">>,
     <<"?">>,
     <<"t", "e", "l", "l">>,
     <<"x">>,
     <<" ">>}

RECURSIVE PieceTexts(_)
\* the texts made of at most n pieces
PieceTexts(n) ==
    IF n = 0 THEN {<<>>}
    ELSE LET shorter == PieceTexts(n - 1)
         IN  shorter \cup {t \o q : t \in shorter, q \in IntentPieces}

IntentTexts == PieceTexts(MaxPieces)

\* the intent texts of the naturalize calls: one of each category
NaturalizeTexts == PieceTexts(1) \ {<<" ">>}

Tones == {"polite", "casual"}
Lengths == {"short", "medium", "long"}

----------------------------------------------------------------------------
(* The dataset store and generator as a state machine                       *)

InitStore ==
    /\ PhraseIdle
    /\ LexiconIdle
    /\ GenIdle
    /\ SsmlIdle
    /\ ApiIdle
    /\ AudioIdle
    /\ st_export \in Prefixes(ExportDocs, MaxDocs)
    /\ st_dict \in Prefixes(DictEntries, MaxDictEntries)
    /\ st_loaded = FALSE
    /\ st_entries = <<>>
    /\ by_domain = <<>>
    /\ st_en_to_ika = <<>>
    /\ st_ika_to_en = <<>>
    /\ ika_token_set = {}
    /\ dg_call = "none"
    /\ dg_args = <<>>
    /\ dg_result = <<>>
    /\ dg_locals = <<>>
    /\ rl_pc = "idle"
    /\ rl_entries = <<>>
    /\ rl_i = 0

\* get_store(): LexiconStore(export) and store.load()
GetStore ==
    /\ ~st_loaded
    /\ st_loaded' = TRUE
    /\ st_entries' = StoreEntries(st_export) \o StoreEntries(st_dict)
    /\ by_domain' = IndexBy(st_entries', "by_domain")
    /\ st_en_to_ika' = IndexBy(st_entries', "en_to_ika")
    /\ st_ika_to_en' = IndexBy(st_entries', "ika_to_en")
    /\ ika_token_set' = IkaTokens(st_entries')
    /\ UNCHANGED <<st_export, st_dict, dg_call, dg_args, dg_result, dg_locals>>
    /\ UNCHANGED <<rl_pc, rl_entries, rl_i>>
    /\ UNCHANGED stOthers

\* the index after index[key] on the defaultdict: an absent key is created
store_getitem(d, key) ==
    [k \in DOMAIN d \cup {key} |-> IF k \in DOMAIN d THEN d[k] ELSE <<>>]

\* the index after index.get(key, []): the read creates nothing
store_get(d, key) == d

RECURSIVE AfterGets(_, _)
\* the index after the reads of the keys, in order
AfterGets(d, keys) ==
    IF keys = <<>> THEN d ELSE AfterGets(store_get(d, Head(keys)), Tail(keys))

\* what the dataset functions never touch
StoreUntouched ==
    UNCHANGED <<st_export, st_dict, st_loaded, st_entries, ika_token_set,
                rl_pc, rl_entries, rl_i>>

\* what a call that reads no index leaves alone
StoreKept ==
    UNCHANGED <<st_export, st_dict, st_loaded, st_entries, by_domain,
                st_en_to_ika, st_ika_to_en, ika_token_set, rl_pc, rl_entries, rl_i>>

\* translate_en_to_ika_sentence(store, english), up to its return
TranslateEn(english) ==
    /\ st_loaded /\ dg_call = "none"
    /\ \E r \in translate_en_to_ika_sentence(st_entries, by_domain, st_en_to_ika,
                                             english) :
          /\ dg_result' = r.res
          /\ dg_locals' = r.locals
    /\ dg_call' = "translate_en_to_ika_sentence"
    /\ dg_args' = <<english>>
    /\ st_en_to_ika' = store_get(st_en_to_ika, lower(strip(english)))
    /\ by_domain' = IF GetList(st_en_to_ika, lower(strip(english))) # <<>>
                    THEN by_domain
                    ELSE AfterGets(by_domain, <<"greeting", "sentence.svo",
                                               "sentence.expression",
                                               "synonym_general">>)
    /\ UNCHANGED st_ika_to_en
    /\ StoreUntouched
    /\ UNCHANGED stOthers

\* translate_ika_to_en(store, ika), up to its return
TranslateIka(ika) ==
    /\ st_loaded /\ dg_call = "none"
    /\ \E r \in {translate_ika_to_en(st_ika_to_en, ika)} :
          /\ dg_result' = r.res
          /\ dg_locals' = r.locals
    /\ dg_call' = "translate_ika_to_en"
    /\ dg_args' = <<ika>>
    /\ st_ika_to_en' = store_get(st_ika_to_en, lower(strip(ika)))
    /\ UNCHANGED <<by_domain, st_en_to_ika>>
    /\ StoreUntouched
    /\ UNCHANGED stOthers

\* store.is_ika_text(text), up to its return
IsIkaText(text) ==
    /\ st_loaded /\ dg_call = "none"
    /\ dg_result' = is_ika_text(ika_token_set, text)
    /\ dg_locals' = <<>>
    /\ dg_call' = "is_ika_text"
    /\ dg_args' = <<text>>
    /\ StoreKept
    /\ UNCHANGED stOthers

\* _classify_intent(text), up to its return
ClassifyIntent(text) ==
    /\ st_loaded /\ dg_call = "none"
    /\ dg_result' = classify_intent(text)
    /\ dg_locals' = <<>>
    /\ dg_call' = "classify_intent"
    /\ dg_args' = <<text>>
    /\ StoreKept
    /\ UNCHANGED stOthers

\* naturalize(store, intent_text, tone, length), up to its return
Naturalize(intent_text, tone, length) ==
    /\ st_loaded /\ dg_call = "none"
    /\ \E r \in naturalize(st_entries, by_domain, intent_text, tone, length) :
          /\ dg_result' = r.res
          /\ dg_locals' = r.locals
    /\ dg_call' = "naturalize"
    /\ dg_args' = <<intent_text, tone, length>>
    /\ by_domain' = AfterGets(by_domain, <<"greeting", "sentence.expression",
                                           "synonym_general", "synonym_family">>)
    /\ UNCHANGED <<st_en_to_ika, st_ika_to_en>>
    /\ StoreUntouched
    /\ UNCHANGED stOthers

\* the call has returned: its locals are gone, the store is as it was
StoreReturn ==
    /\ dg_call # "none"
    /\ dg_call' = "none"
    /\ dg_args' = <<>>
    /\ dg_result' = <<>>
    /\ dg_locals' = <<>>
    /\ StoreKept
    /\ UNCHANGED stOthers

NextStore ==
    \/ GetStore
    \/ \E english \in EnglishQueries : TranslateEn(english)
    \/ \E ika \in IkaTextQueries : TranslateIka(ika)
    \/ \E text \in DetectTexts : IsIkaText(text)
    \/ \E text \in IntentTexts : ClassifyIntent(text)
    \/ \E text \in NaturalizeTexts, tone \in Tones, length \in Lengths :
          Naturalize(text, tone, length)
    \/ StoreReturn

SpecStore == InitStore /\ [][NextStore]_vars

----------------------------------------------------------------------------
(* LexiconStore.load() called again on the loaded store while requests read *)
(* it: every statement of load that writes a field of the store is a step   *)

MaxReloadDocs == 3

\* the index after index[key].append(e) on the defaultdict
IndexAppend(d, key, e) ==
    [k \in DOMAIN d \cup {key} |-> IF k = key THEN GetList(d, key) \o <<e>> ELSE d[k]]

\* a store loaded from one export while the file now holds another
InitReload ==
    /\ PhraseIdle
    /\ LexiconIdle
    /\ GenIdle
    /\ SsmlIdle
    /\ ApiIdle
    /\ AudioIdle
    /\ st_export \in Prefixes(ExportDocs, MaxReloadDocs)
    /\ st_dict = <<>>
    /\ st_loaded = TRUE
    /\ \E old \in Prefixes(ExportDocs, MaxReloadDocs) :
          /\ st_entries = StoreEntries(old)
          /\ by_domain = IndexBy(StoreEntries(old), "by_domain")
          /\ st_en_to_ika = IndexBy(StoreEntries(old), "en_to_ika")
          /\ st_ika_to_en = IndexBy(StoreEntries(old), "ika_to_en")
          /\ ika_token_set = IkaTokens(StoreEntries(old))
    /\ dg_call = "none"
    /\ dg_args = <<>>
    /\ dg_result = <<>>
    /\ dg_locals = <<>>
    /\ rl_pc = "idle"
    /\ rl_entries = <<>>
    /\ rl_i = 0

\* what load leaves alone at every step
ReloadKept ==
    /\ UNCHANGED <<st_export, st_dict, st_loaded, dg_call, dg_args, dg_result,
                   dg_locals>>
    /\ UNCHANGED stOthers

\* load, from reading the files to self.entries = entries
LoadAssign ==
    /\ st_loaded /\ rl_pc = "idle"
    /\ rl_entries' = StoreEntries(st_export) \o StoreEntries(st_dict)
    /\ st_entries' = rl_entries'
    /\ rl_pc' = "clear_by_domain"
    /\ UNCHANGED <<by_domain, st_en_to_ika, st_ika_to_en, ika_token_set, rl_i>>
    /\ ReloadKept

\* self.by_domain.clear()
ClearByDomain ==
    /\ rl_pc = "clear_by_domain"
    /\ by_domain' = <<>>
    /\ rl_pc' = "clear_en_to_ika"
    /\ UNCHANGED <<st_entries, st_en_to_ika, st_ika_to_en, ika_token_set,
                   rl_entries, rl_i>>
    /\ ReloadKept

\* self.en_to_ika.clear()
ClearEnToIka ==
    /\ rl_pc = "clear_en_to_ika"
    /\ st_en_to_ika' = <<>>
    /\ rl_pc' = "clear_ika_to_en"
    /\ UNCHANGED <<st_entries, by_domain, st_ika_to_en, ika_token_set,
                   rl_entries, rl_i>>
    /\ ReloadKept

\* self.ika_to_en.clear()
ClearIkaToEn ==
    /\ rl_pc = "clear_ika_to_en"
    /\ st_ika_to_en' = <<>>
    /\ rl_pc' = "clear_ika_token_set"
    /\ UNCHANGED <<st_entries, by_domain, st_en_to_ika, ika_token_set,
                   rl_entries, rl_i>>
    /\ ReloadKept

\* self.ika_token_set.clear()
ClearIkaTokenSet ==
    /\ rl_pc = "clear_ika_token_set"
    /\ ika_token_set' = {}
    /\ rl_pc' = "fill"
    /\ UNCHANGED <<st_entries, by_domain, st_en_to_ika, st_ika_to_en,
                   rl_entries, rl_i>>
    /\ ReloadKept

\* one iteration of `for e in entries`
LoadFill ==
    /\ rl_pc = "fill"
    /\ rl_i < Len(rl_entries)
    /\ LET e == rl_entries[rl_i + 1]
       IN  /\ by_domain' = IndexAppend(by_domain, IndexKey(e, "by_domain"), e)
           /\ st_en_to_ika' = IndexAppend(st_en_to_ika, IndexKey(e, "en_to_ika"), e)
           /\ st_ika_to_en' = IndexAppend(st_ika_to_en, IndexKey(e, "ika_to_en"), e)
           /\ ika_token_set' = ika_token_set \cup IkaTokens(<<e>>)
    /\ rl_i' = rl_i + 1
    /\ UNCHANGED <<st_entries, rl_entries, rl_pc>>
    /\ ReloadKept

\* the loop is over and load returns
LoadReturn ==
    /\ rl_pc = "fill"
    /\ rl_i = Len(rl_entries)
    /\ rl_pc' = "idle"
    /\ rl_entries' = <<>>
    /\ rl_i' = 0
    /\ UNCHANGED <<st_entries, by_domain, st_en_to_ika, st_ika_to_en, ika_token_set>>
    /\ ReloadKept

\* requests of other threads read the store between the steps of load
NextReload ==
    \/ LoadAssign
    \/ ClearByDomain
    \/ ClearEnToIka
    \/ ClearIkaToEn
    \/ ClearIkaTokenSet
    \/ LoadFill
    \/ LoadReturn
    \/ \E english \in EnglishQueries : TranslateEn(english)
    \/ \E ika \in IkaTextQueries : TranslateIka(ika)
    \/ \E text \in DetectTexts : IsIkaText(text)
    \/ StoreReturn

SpecReload == InitReload /\ [][NextReload]_vars

----------------------------------------------------------------------------
(* Properties of the phrase matcher                                         *)

InChunk == pc \in {"chunking", "done"}

\* chunk has tokenized its text and not yet scanned: every offset of the
\* token list is looked at in this state
ChunkEntered == pc = "chunking" /\ i = 0

\* tokens[a:e] of the code
Slice(toks, a, e) == SubSeq(toks, a + 1, e)

\* the exclusive ends e such that some phrase of the bank has exactly the
\* tokens tokens[at:e]
MatchEnds(at) ==
    {e \in (at + 1)..Len(tokens) :
        \E k \in 1..Len(pb_items) :
            tokenize_en(pb_items[k].english) = Slice(tokens, at, e)}

\* C1: find_longest_at(tokens, at) returns a phrase of the bank whose tokens
\* are tokens[at:end], with end the largest end at which any phrase of the
\* bank matches at offset at, and returns none exactly when no phrase of the
\* bank matches there.
C1_LongestMatch ==
    ChunkEntered =>
        \A at \in 0..Len(tokens) :
            LET r == find_longest_at(pb_trie, tokens, at)
            IN  /\ (r = <<>>) <=> (MatchEnds(at) = {})
                /\ r # <<>> =>
                     /\ r[1].end = SetMax(MatchEnds(at))
                     /\ \E k \in 1..Len(pb_items) : pb_items[k] = r[1].item
                     /\ tokenize_en(r[1].item.english) = Slice(tokens, at, r[1].end)

\* a scan position where a shorter and a longer phrase both match and the
\* recorded match is the longer one
C1_Witness ==
    /\ InChunk
    /\ \E k \in 1..Len(matches) :
          /\ Cardinality(MatchEnds(matches[k].start)) >= 2
          /\ matches[k].end = SetMax(MatchEnds(matches[k].start))

\* the token positions inside match record k
Covered(k) == matches[k].start..(matches[k].end - 1)

ChunkShape ==
    InChunk =>
        /\ i >= 0 /\ i <= Len(tokens)
        /\ \A k \in 1..Len(matches) :
              /\ 0 <= matches[k].start
              /\ matches[k].start < matches[k].end
              /\ matches[k].end <= i
        /\ \A k \in 1..(Len(matches) - 1) :
              /\ matches[k].start < matches[k + 1].start
              /\ matches[k].end <= matches[k + 1].start
        /\ \A p \in 0..(i - 1) :
              \/ Cardinality({k \in 1..Len(matches) : p \in Covered(k)}) = 1
              \/ /\ \A k \in 1..Len(matches) : p \notin Covered(k)
                 /\ find_longest_at(pb_trie, tokens, p) = <<>>
        /\ pc = "done" => i = Len(tokens)

\* a step of the loop: the scan moves forward, by exactly one token and
\* recording nothing when nothing is found at i, to the end of the new match
\* record otherwise
ChunkStepRule ==
    (pc = "chunking" /\ pc' = "chunking") =>
        /\ i' > i
        /\ tokens' = tokens
        /\ IF find_longest_at(pb_trie, tokens, i) = <<>>
           THEN i' = i + 1 /\ matches' = matches
           ELSE /\ Len(matches') = Len(matches) + 1
                /\ SubSeq(matches', 1, Len(matches)) = matches
                /\ matches'[Len(matches')].start = i
                /\ matches'[Len(matches')].end = i'

\* C2: chunk terminates; its match records have strictly increasing starts,
\* do not overlap and lie within the tokens; every scanned position is in
\* exactly one record or was skipped, skipped only where find_longest_at
\* finds nothing, and the scan resumes one token after a skipped position.
C2_ChunkScan ==
    /\ []ChunkShape
    /\ [][ChunkStepRule]_vars
    /\ (pc = "chunking") ~> (pc = "done")

\* a finished scan that skipped a position between two match records
C2_Witness ==
    /\ pc = "done"
    /\ Len(matches) >= 2
    /\ \E p \in 0..(Len(tokens) - 1) :
          /\ \A k \in 1..Len(matches) : p \notin Covered(k)
          /\ matches[1].end <= p
          /\ p < matches[Len(matches)].start

MatchIka == [k \in 1..Len(matches) |-> matches[k].ika]

\* C3: the chunk sequence is the target phrases of the match records, in
\* order, without the empty ones, and the translated text is their join.
C3_SilentPhrase ==
    InChunk =>
        /\ ika_out = SelectSeq(MatchIka, NonEmpty)
        /\ pc = "done" => pb_text = strip(JoinSpace(SelectSeq(MatchIka, NonEmpty)))

\* a finished scan with a silent match record among others
C3_Witness ==
    /\ pc = "done"
    /\ \E k \in 1..Len(matches) : matches[k].ika = <<>> /\ matches[k].end > matches[k].start
    /\ Len(ika_out) >= 1
    /\ Len(ika_out) < Len(matches)

\* the row of the file is marked verified and has English text
RowVerified(it) ==
    /\ it.status \in {"verified", "Verified", "VERIFIED"}
    /\ \E k \in 1..Len(it.english) : it.english[k] \notin Whitespace

\* C4: every match record of chunk and every entry of the Ika-to-English
\* map comes from a row of the file whose status is verified and whose
\* English text is not empty.
C4_VerifiedOnly ==
    /\ \A k \in 1..Len(matches) :
          \E r \in 1..Len(raw_items) :
              /\ RowVerified(raw_items[r])
              /\ matches[k].id = raw_items[r].id
              /\ matches[k].english = strip(raw_items[r].english)
              /\ matches[k].ika = strip(raw_items[r].ika)
    /\ \A key \in DOMAIN ika_en_map :
          \E r \in 1..Len(raw_items) :
              /\ RowVerified(raw_items[r])
              /\ key = lower(strip(raw_items[r].ika))
              /\ ika_en_map[key] = strip(raw_items[r].english)

\* a file with an unverified row whose phrase occurs in the scanned text,
\* a match record, and a built map
C4_Witness ==
    /\ pc = "done"
    /\ Len(matches) >= 1
    /\ map_built /\ DOMAIN ika_en_map # {}
    /\ \E r \in 1..Len(raw_items) :
          /\ ~RowVerified(raw_items[r])
          /\ \E at \in 0..Len(tokens), e \in 0..Len(tokens) :
                /\ at < e
                /\ tokenize_en(raw_items[r].english) = Slice(tokens, at, e)

\* the rows of the file that load keeps and whose tokens are toks
RowsWithTokens(toks) ==
    {r \in 1..Len(raw_items) :
        /\ RowVerified(raw_items[r])
        /\ tokenize_en(strip(raw_items[r].english)) = toks}

\* C5: among verified phrases with the same token sequence, lookup reports
\* the one that comes first in the file.
C5_FirstDuplicateWins ==
    ChunkEntered =>
        \A at \in 0..Len(tokens) :
            LET r == find_longest_at(pb_trie, tokens, at)
            IN  r # <<>> =>
                  LET rows == RowsWithTokens(Slice(tokens, at, r[1].end))
                  IN  /\ rows # {}
                      /\ r[1].item = MakePhraseItem(raw_items[SetMin(rows)])

\* a match record for a token sequence that two different verified rows share
C5_Witness ==
    /\ InChunk
    /\ \E k \in 1..Len(matches) :
          LET rows == RowsWithTokens(Slice(tokens, matches[k].start, matches[k].end))
          IN  \E r1, r2 \in rows :
                 MakePhraseItem(raw_items[r1]) # MakePhraseItem(raw_items[r2])

----------------------------------------------------------------------------
(* Properties of the lexicon service                                        *)

\* the other case of a letter
FlipCase(c) ==
    CASE c = "a" -> "A"
      [] c = "b" -> "B"
      [] c = "A" -> "a"
      [] c = "B" -> "b"
      [] OTHER -> c

\* the texts that differ from text by one letter's case, by one more leading
\* or trailing whitespace character, or by one more character in a run of
\* internal whitespace
Variants(text) ==
    {<<" ">> \o text, text \o <<"\t">>}
    \cup {[text EXCEPT ![k] = FlipCase(text[k])] : k \in 1..Len(text)}
    \cup {SubSeq(text, 1, k) \o <<" ">> \o SubSeq(text, k + 1, Len(text)) :
            k \in {j \in 1..Len(text) : text[j] \in Whitespace}}

\* C6: lookup_en_to_ika returns the same dict for two texts that differ only
\* in letter case, surrounding whitespace or the length of whitespace runs.
C6_NormalizationInvariance ==
    lk_call = "en" =>
        \A t \in Variants(lk_text) :
            lookup_en_to_ika(exact_en, en_keys_sorted, t).res = lk_result

\* a hit for a text with an upper-case letter and whitespace to remove
C6_Witness ==
    /\ lk_call = "en"
    /\ lk_result.found
    /\ \E k \in 1..Len(lk_text) : lk_text[k] \in UpperLetters
    /\ Len(lk_result.query) < Len(lk_text)

\* the rows of lexicon.json that build_fast_lookup files under key, in order
RowsForKey(key) ==
    {r \in 1..Len(lexicon_json) :
        /\ fast_norm(lexicon_json[r].source_text) = key
        /\ strip(lexicon_json[r].target_text) # <<>>}

\* the k-th smallest element of a set of numbers
Nth(S, k) == CHOOSE m \in S : Cardinality({j \in S : j < m}) = k - 1

\* C7: a normalized query that is a key of the English index gives found,
\* all candidates of the key in stored order, and no suggestion; any other
\* query gives not found and no candidate.
C7_ExactMatch ==
    lk_call = "en" =>
        LET norm == normalize(lk_text)
        IN  IF norm \in DOMAIN exact_file
            THEN /\ lk_result.found
                 /\ lk_result.query = norm
                 /\ lk_result.candidates = exact_file[norm]
                 /\ Len(lk_result.candidates) = Cardinality(RowsForKey(norm))
                 /\ \A k \in 1..Len(lk_result.candidates) :
                       lk_result.candidates[k].id =
                           lexicon_json[Nth(RowsForKey(norm), k)].id
                 /\ lk_result.suggestions = <<>>
            ELSE /\ ~lk_result.found
                 /\ lk_result.candidates = <<>>

\* a hit on a key that several rows share
C7_Witness ==
    /\ lk_call = "en"
    /\ lk_result.found
    /\ Len(lk_result.candidates) >= 2
    /\ lk_result.candidates[1] # lk_result.candidates[2]

HasSuggestions(res) == "suggestions" \in DOMAIN res

\* C8: a miss, in either direction, returns at most 10 suggestions.
C8_SuggestionBound ==
    (lk_call # "none" /\ ~lk_result.found /\ HasSuggestions(lk_result)) =>
        Len(lk_result.suggestions) <= 10

\* an Ika miss with more than 10 keys near the query
C8_Witness ==
    /\ lk_call = "ika"
    /\ ~lk_result.found
    /\ HasSuggestions(lk_result)
    /\ Len(lk_result.suggestions) = 10
    /\ Cardinality({k \in 1..Len(ika_to_en) :
                      IkaPartial(ika_to_en[k].key, lk_result.query)}) > 10

\* the keys of the English index that partially match the query
PartialKeys(norm) == {k \in DOMAIN exact_en : PartialMatch(norm, k)}

\* the score of a key against the query
Score(norm, key) == token_overlap_score(SplitSet(norm), SplitSet(key))

SuggestedKeys == [k \in 1..Len(lk_result.suggestions) |-> lk_result.suggestions[k].en]

MinOf(a, b) == IF a < b THEN a ELSE b

\* C9: on a miss the suggested keys are the partial matches in sorted-key
\* order (at most 15), then the other keys of positive overlap score by
\* (score descending, key ascending) (at most 10), without duplicates and cut
\* to 10; no partial match comes after an overlap-only key.
C9_SuggestionOrder ==
    (lk_call = "en" /\ ~lk_result.found /\ lk_result.query # <<>>) =>
        LET norm == lk_result.query
            partial == lk_locals.partial
            overlap == lk_locals.overlap
            pkeys == PartialKeys(norm)
            rest == {k \in DOMAIN exact_en \ SeqRange(partial) : Score(norm, k) > 0}
            top == Take(overlap, 10)
            merged == partial \o [k \in 1..Len(top) |-> top[k].key]
        IN  /\ SeqRange(partial) \subseteq pkeys
            /\ Len(partial) = MinOf(15, Cardinality(pkeys))
            /\ \A a, b \in 1..Len(partial) : a < b => StrLess(partial[a], partial[b])
            /\ \A k \in pkeys \ SeqRange(partial) :
                  \A a \in 1..Len(partial) : StrLess(partial[a], k)
            /\ {overlap[k].key : k \in 1..Len(overlap)} = rest
            /\ Len(overlap) = Cardinality(rest)
            /\ \A k \in 1..Len(overlap) : overlap[k].score = Score(norm, overlap[k].key)
            /\ \A a, b \in 1..Len(overlap) :
                  a < b => \/ overlap[a].score > overlap[b].score
                           \/ /\ overlap[a].score = overlap[b].score
                              /\ StrLess(overlap[a].key, overlap[b].key)
            /\ SuggestedKeys = Take(merged, 10)
            /\ \A a, b \in 1..Len(SuggestedKeys) :
                  a # b => SuggestedKeys[a] # SuggestedKeys[b]
            /\ \A a, b \in 1..Len(SuggestedKeys) :
                  (a < b /\ SuggestedKeys[b] \in pkeys)
                      => SuggestedKeys[a] \in pkeys

\* a miss whose suggestions hold partial matches followed by overlap-only
\* keys of different scores
C9_Witness ==
    /\ lk_call = "en"
    /\ ~lk_result.found
    /\ Len(lk_locals.partial) >= 1
    /\ Len(lk_result.suggestions) > Len(lk_locals.partial) + 1
    /\ \E a, b \in 1..Len(lk_locals.overlap) :
          /\ a < b
          /\ lk_locals.overlap[a].score > lk_locals.overlap[b].score
          /\ StrLess(lk_locals.overlap[b].key, lk_locals.overlap[a].key)
          /\ Len(lk_locals.partial) + b <= Len(lk_result.suggestions)

\* C10 as stated: an empty or whitespace-only query gives, in both
\* directions, found = false, no candidates or meanings and an empty
\* suggestion list, and the index is not scanned.
C10_EmptyQuery ==
    (lk_call # "none" /\ \A k \in 1..Len(lk_text) : lk_text[k] \in Whitespace) =>
        /\ ~lk_result.found
        /\ lk_call = "en" => lk_result.candidates = <<>>
        /\ lk_call = "ika" => lk_result.meanings = <<>>
        /\ HasSuggestions(lk_result)
        /\ lk_result.suggestions = <<>>
        /\ ~lk_locals.scanned

----------------------------------------------------------------------------
(* Properties of the dataset store and generator                            *)

\* the normalized form of a text: trimmed, case-folded, whitespace-collapsed
NormalForm(t) == CollapseSpaces(lower(strip(t)))

\* C11 as stated: the keys of en_to_ika and ika_to_en and the keys the two
\* translate functions look up are the normalized form of the text, so every
\* entry is indexed under the normalized form of its text and a query whose
\* normalized form is that of an entry's text finds the entry.
C11_NormalizedKeys ==
    /\ st_loaded =>
          \A n \in 1..Len(st_entries) :
              /\ st_entries[n] \in SeqRange(GetList(st_en_to_ika, NormalForm(st_entries[n].en)))
              /\ st_entries[n] \in SeqRange(GetList(st_ika_to_en, NormalForm(st_entries[n].ika)))
    /\ dg_call = "translate_en_to_ika_sentence" =>
          \A n \in 1..Len(st_entries) :
              NormalForm(st_entries[n].en) = NormalForm(dg_args[1])
                  => st_entries[n] \in SeqRange(dg_locals.hits)
    /\ dg_call = "translate_ika_to_en" =>
          \A n \in 1..Len(st_entries) :
              NormalForm(st_entries[n].ika) = NormalForm(dg_args[1])
                  => st_entries[n] \in SeqRange(dg_locals.hits)

\* the maximal runs of token characters of a text, as <<first, last>>
TokenRuns(s) ==
    {<<p, TokenRunEnd(s, p)>> :
        p \in {q \in 1..Len(s) : IsTokenChar(s[q]) /\ (q = 1 \/ ~IsTokenChar(s[q - 1]))}}

\* the runs whose lowered text is in ika_token_set
HitRuns(s) ==
    {r \in TokenRuns(s) : lower(SubSeq(s, r[1], r[2])) \in ika_token_set}

\* C12: is_ika_text(text) is true exactly when the text has at least one
\* token and hits * 100 >= 35 * tokens, hits being the number of its tokens
\* found in ika_token_set.
C12_IkaThreshold ==
    dg_call = "is_ika_text" =>
        LET n == Cardinality(TokenRuns(dg_args[1]))
            hits == Cardinality(HitRuns(dg_args[1]))
        IN  dg_result = (n >= 1 /\ hits * 100 >= 35 * n)

\* a text classified as Ika at exactly 35%: 7 of its 20 tokens are known
C12_Witness ==
    /\ dg_call = "is_ika_text"
    /\ dg_result = TRUE
    /\ Cardinality(TokenRuns(dg_args[1])) = 20
    /\ Cardinality(HitRuns(dg_args[1])) = 7

\* the positions of the hits whose domain is in the first tier
PriorityHits(hits) ==
    {k \in 1..Len(hits) :
        IsSentenceDomain(hits[k].domain) \/ hits[k].domain = "greeting"}

\* C13: when several entries match the English key, the Ika text returned is
\* that of the first entry, in insertion order, whose domain starts with
\* "sentence." or is "greeting", and of the first matching entry when no
\* matching entry has such a domain.
C13_DomainPriority ==
    (dg_call = "translate_en_to_ika_sentence" /\ dg_locals.hits # <<>>) =>
        LET hits == dg_locals.hits
            InKey(e) == lower(e.en) = lower(strip(dg_args[1]))
        IN  /\ hits = SelectSeq(st_entries, InKey)
            /\ dg_result = IF PriorityHits(hits) # {}
                           THEN hits[SetMin(PriorityHits(hits))].ika
                           ELSE hits[1].ika

\* three entries match, the first two are of other domains and the third, a
\* greeting, is returned
C13_Witness ==
    /\ dg_call = "translate_en_to_ika_sentence"
    /\ Len(dg_locals.hits) >= 3
    /\ SetMin(PriorityHits(dg_locals.hits) \cup {4}) = 3
    /\ dg_result = dg_locals.hits[3].ika
    /\ dg_result # dg_locals.hits[1].ika

\* the categories that have a keyword set, in the order of the scan
IntentOrder == <<"apology", "request", "greeting", "question", "announcement">>

KeywordsOf(category) ==
    CASE category = "apology" -> ApologyWords
      [] category = "request" -> RequestWords
      [] category = "greeting" -> GreetingWords
      [] category = "question" -> QuestionWords
      [] category = "announcement" -> AnnouncementWords

\* the positions in IntentOrder of the keyword sets with a word in the
\* case-folded text
MatchingSets(text) ==
    {k \in 1..Len(IntentOrder) :
        \E w \in KeywordsOf(IntentOrder[k]) : Contains(lower(text), w)}

\* C17: _classify_intent returns exactly one of the six categories: that of
\* the first keyword set, in the fixed order, with a word in the case-folded
\* text, and message exactly when no set matches; a question mark gives
\* question only when no apology, request or greeting word is present.
C17_IntentPriority ==
    dg_call = "classify_intent" =>
        LET m == MatchingSets(dg_args[1])
        IN  /\ dg_result \in SeqRange(IntentOrder) \cup {"message"}
            /\ dg_result = IF m = {} THEN "message" ELSE IntentOrder[SetMin(m)]
            /\ (dg_result = "message") = (m = {})
            /\ (Contains(dg_args[1], <<"?">>) /\ dg_result = "question")
                   => m \cap {1, 2, 3} = {}

\* a text with an apology word and a question mark is an apology
C17_Witness ==
    /\ dg_call = "classify_intent"
    /\ Contains(dg_args[1], <<"?">>)
    /\ {1, 4} \subseteq MatchingSets(dg_args[1])
    /\ dg_result = "apology"

\* some entry of the store has this Ika text and this English text
IsEntryPair(ika, en) ==
    \E n \in 1..Len(st_entries) : st_entries[n].ika = ika /\ st_entries[n].en = en

\* C18: naturalize returns the space-joined Ika texts of a sequence of
\* dataset entries and, as back-translation, the space-joined English texts
\* of the same entries in the same order; the components are no more than
\* the budget of the length (short 2, medium 4, long 6) and the notes are
\* never empty.
C18_NaturalizeParts ==
    dg_call = "naturalize" =>
        LET ikas == dg_locals.parts_ika
            ens == dg_locals.parts_en
            budget == CASE dg_args[3] = "short" -> 2
                        [] dg_args[3] = "medium" -> 4
                        [] OTHER -> 6
        IN  /\ Len(ikas) = Len(ens)
            /\ \A k \in 1..Len(ikas) : IsEntryPair(ikas[k], ens[k])
            /\ dg_result.ika_text = JoinSpace(ikas)
            /\ dg_result.en_back = JoinSpace(ens)
            /\ Len(ikas) <= budget
            /\ dg_result.notes # <<>>

\* a long text of six components, opened by a greeting and continued with
\* two different expressions
C18_Witness ==
    /\ dg_call = "naturalize"
    /\ dg_args[3] = "long"
    /\ Len(dg_locals.parts_ika) = 6
    /\ dg_result.notes = <<"Used polite opening">>
    /\ dg_locals.parts_ika[2] # dg_locals.parts_ika[3]
    /\ dg_result.en_back = JoinSpace(dg_locals.parts_en)
    /\ dg_result.en_back # <<>>



----------------------------------------------------------------------------
(* Inputs of the slot filler and the generator                              *)

MaxLexDocs == 4
MaxPatterns == 5

\* the documents of the Firestore collection, in stream order
FsDocs ==
    << [doc_id |-> "d1", source_text |-> <<"s", "u", "n">>, target_text |-> <<"x">>,
        pos |-> "noun", domain |-> "general"],
       [doc_id |-> "d2", source_text |-> <<"G", "o">>, target_text |-> <<"y">>,
        pos |-> "verb", domain |-> "", source_text_lc |-> <<"g", "o">>],
       [doc_id |-> "d3", source_text |-> <<"s", "k", "y">>, target_text |-> <<>>,
        pos |-> "noun", domain |-> "general"],
       [doc_id |-> "d4", source_text |-> <<"b", "i", "g">>, target_text |-> <<"x", " ", "y">>,
        pos |-> "adjective", domain |-> "family"] >>

\* data/pronouns.json, data/connectors.json and the tense markers of
\* data/grammar_rules.json: missing, filled, or with an item that has no
\* Ika form
ClosedClasses ==
    { [pronouns |-> [subject_pronouns |-> <<>>, object_pronouns |-> <<>>],
       connectors |-> <<>>, tense_markers |-> <<>>],
      [pronouns |->
          [subject_pronouns |-> << [english |-> "I", ika |-> <<"m">>],
                                   [english |-> "you", ika |-> <<"w">>] >>,
           object_pronouns |-> << [english |-> "me", ika |-> <<"m">>] >>],
       connectors |-> << [english |-> "and", ika |-> <<"n">>] >>,
       tense_markers |-> [past |-> <<"g", "a">>, future |-> <<>>]],
      [pronouns |->
          [subject_pronouns |-> << [english |-> "we", ika |-> <<>>] >>,
           object_pronouns |-> <<>>],
       connectors |-> <<>>, tense_markers |-> <<>>] }

StrSlot(name) == [kind |-> "str", name |-> name, pos |-> ""]
DictSlot(name, pos) == [kind |-> "dict", name |-> name, pos |-> pos]
OtherSlot == [kind |-> "other", name |-> <<>>, pos |-> ""]

\* data/ika_grammar_patterns.json
Patterns ==
    << [pattern_id |-> "none", slots |-> <<DictSlot(SlotText.Thing, "xyz")>>],
       [pattern_id |-> "subj", slots |-> <<StrSlot(SlotText.Subject)>>],
       [pattern_id |-> "svo",
        slots |-> <<StrSlot(SlotText.Subject), DictSlot(SlotText.MainVerb, ""),
                    StrSlot(SlotText.Object)>>],
       [pattern_id |-> "role",
        slots |-> <<StrSlot(SlotText.SUBJ), StrSlot(SlotText.Connector),
                    DictSlot(SlotText.OBJ_OR_COMP, "adjective"), OtherSlot,
                    DictSlot(<<>>, "noun"), StrSlot(SlotText.SUBJ)>>],
       [pattern_id |-> "obj", slots |-> <<DictSlot(SlotText.Object, "xyz")>>] >>

NoSection == [pattern_pool |-> <<>>, min_sentences |-> <<>>, max_sentences |-> <<>>]
SectionOf(pool, lo, hi) ==
    [pattern_pool |-> pool, min_sentences |-> lo, max_sentences |-> hi]

NoTemplates ==
    [poem_templates |-> <<>>, story_templates |-> <<>>, lecture_templates |-> <<>>]

\* data/templates.json with pools that name a pattern without a fillable
\* slot and a pattern that does not exist, and a lecture whose range is empty
FullTemplates ==
    [poem_templates |-> << [pattern_pool |-> <<"none", "subj", "ghost">>] >>,
     story_templates |->
        << [opening |-> SectionOf(<<"svo">>, <<0>>, <<1>>),
            conflict |-> SectionOf(<<"none", "ghost">>, <<1>>, <<1>>),
            resolution |-> NoSection] >>,
     lecture_templates |->
        << [intro |-> SectionOf(<<"subj">>, <<>>, <<1>>),
            explain |-> NoSection,
            summary |-> NoSection],
           [intro |-> SectionOf(<<"role">>, <<1>>, <<1>>),
            explain |-> NoSection,
            summary |-> SectionOf(<<"subj">>, <<0>>, <<1>>)] >>]

\* a poem template without a pool: the first patterns of the index are used
PoolLessTemplates ==
    [poem_templates |-> << [pattern_pool |-> <<>>] >>,
     story_templates |-> <<>>, lecture_templates |-> <<>>]

\* a story template whose opening asks for at least two and at most one
\* sentence
EmptyRangeTemplates ==
    [poem_templates |-> <<>>,
     story_templates |->
        << [opening |-> SectionOf(<<"subj">>, <<2>>, <<1>>),
            conflict |-> NoSection,
            resolution |-> NoSection] >>,
     lecture_templates |-> <<>>]

\* the data files the process can start with
DataFiles ==
    {[patterns |-> ps, templates |-> t] :
        ps \in Prefixes(Patterns, MaxPatterns), t \in {NoTemplates}}
    \cup {[patterns |-> Take(Patterns, MaxPatterns), templates |-> FullTemplates],
          [patterns |-> Take(Patterns, 2), templates |-> PoolLessTemplates],
          [patterns |-> Take(Patterns, 2), templates |-> EmptyRangeTemplates]}

SlotNames ==
    {SlotText.Subject, SlotText.Object, SlotText.SUBJ, SlotText.OBJ_OR_COMP, SlotText.OBJ_OR_LOC, SlotText.Connector,
     SlotText.MainVerb, SlotText.Adjective, SlotText.Adverb, SlotText.LOC, SlotText.Thing}

PosConstraints == {<<>>, <<[pos |-> "verb"]>>, <<[pos |-> "xyz"]>>}
FillDomains == {"", "general", "nowhere"}
\* texts and tenses passed to Generator.translate
TranslateTexts ==
    { <<>>,
      <<"q">>,
      <<"G", "O", " ", "s", "u", "n">>,
      <<" ", "s", "u", "n", "\t", " ", "q">>,
      <<"s", "k", "y">>,
      <<"b", "i", "g", " ", "g", "o">> }
Tenses == {"present", "past", "progressive"}

Kinds == {"poem", "story", "lecture", "essay"}
GenLengths == {"short", "medium", "long", "epic"}

----------------------------------------------------------------------------
(* The slot filler and the generator as a state machine                     *)

InitGen ==
    /\ PhraseIdle
    /\ LexiconIdle
    /\ StoreIdle
    /\ SsmlIdle
    /\ ApiIdle
    /\ AudioIdle
    /\ fs_lexicon \in Prefixes(FsDocs, MaxLexDocs)
    /\ fs_ok \in BOOLEAN
    /\ \E c \in ClosedClasses :
          /\ pronouns = c.pronouns
          /\ connectors = c.connectors
          /\ rules = c.tense_markers
    /\ \E d \in DataFiles : pattern_index = d.patterns /\ templates = d.templates
    /\ gen_call = "none"
    /\ gen_args = <<>>
    /\ gen_result = <<>>
    /\ gen_locals = <<>>

\* the repositories and the data files are read-only after start
GenKept == UNCHANGED <<fs_lexicon, fs_ok, pronouns, connectors, pattern_index,
                       templates, rules>>

\* SlotFiller.fill_slot(slot_name, slot_constraints, domain)
FillSlot(slot_name, slot_constraints, domain) ==
    /\ gen_call = "none"
    /\ gen_call' = "fill_slot"
    /\ gen_args' = <<slot_name, slot_constraints, domain>>
    /\ gen_result' \in fill_slot(slot_name, slot_constraints, domain)
    /\ gen_locals' = <<>>
    /\ GenKept
    /\ UNCHANGED genOthers

\* SlotFiller.fill_pattern_slots(pattern, domain)
FillPatternSlots(pattern, domain) ==
    /\ gen_call = "none"
    /\ pattern \in SeqRange(pattern_index)
    /\ gen_call' = "fill_pattern_slots"
    /\ gen_args' = <<pattern, domain>>
    /\ gen_result' \in fill_pattern_slots(pattern, domain)
    /\ gen_locals' = <<>>
    /\ GenKept
    /\ UNCHANGED genOthers

\* Generator.generate(kind, topic, tone, length)
Generate(kind, length) ==
    /\ gen_call = "none"
    /\ gen_call' = "generate"
    /\ gen_args' = <<kind, length>>
    /\ \E r \in generate(kind, length) :
          /\ gen_result' = r.res
          /\ gen_locals' = r.locals
    /\ GenKept
    /\ UNCHANGED genOthers

\* Generator.translate(text, tense, mode)
Translate(text, tense) ==
    /\ gen_call = "none"
    /\ gen_call' = "translate"
    /\ gen_args' = <<text, tense>>
    /\ gen_result' = generator_translate(text, tense, "rule_based")
    /\ gen_locals' = <<>>
    /\ GenKept
    /\ UNCHANGED genOthers

\* the call has returned: its locals are gone
GenReturn ==
    /\ gen_call # "none"
    /\ gen_call' = "none"
    /\ gen_args' = <<>>
    /\ gen_result' = <<>>
    /\ gen_locals' = <<>>
    /\ GenKept
    /\ UNCHANGED genOthers

NextGen ==
    \/ \E slot_name \in SlotNames, c \in PosConstraints, domain \in FillDomains :
          FillSlot(slot_name, c, domain)
    \/ \E pattern \in SeqRange(Patterns), domain \in FillDomains :
          FillPatternSlots(pattern, domain)
    \/ \E kind \in Kinds, length \in GenLengths : Generate(kind, length)
    \/ \E text \in TranslateTexts, tense \in Tenses : Translate(text, tense)
    \/ GenReturn

SpecGen == InitGen /\ [][NextGen]_vars


----------------------------------------------------------------------------
(* Properties of the slot filler and the generator                          *)

\* the items fill_slot builds from a closed-class list
ClosedItems(list, pos, file) == {ClosedItem(list[k], pos, file) : k \in 1..Len(list)}

\* C14: for a slot name of a subject role (Subject, SUBJ) or an object role
\* (Object, OBJ_OR_COMP, OBJ_OR_LOC) whose pronoun list is not empty,
\* fill_slot returns an item of that pronoun list with pos "pronoun", never a
\* lexicon entry, whatever the constraints and the domain; a Connector slot
\* returns an item of a non-empty connector list.
C14_ClosedClassPriority ==
    gen_call = "fill_slot" =>
        LET slot_name == gen_args[1]
        IN  /\ (slot_name \in SUBJECT_SLOTS /\ pronouns.subject_pronouns # <<>>)
                => /\ gen_result # <<>>
                   /\ gen_result[1] \in ClosedItems(pronouns.subject_pronouns,
                                                    "pronoun", "pronouns.json")
            /\ (slot_name \in OBJECT_SLOTS /\ pronouns.object_pronouns # <<>>)
                => /\ gen_result # <<>>
                   /\ gen_result[1] \in ClosedItems(pronouns.object_pronouns,
                                                    "pronoun", "pronouns.json")
            /\ (slot_name = SlotText.Connector /\ connectors # <<>>)
                => /\ gen_result # <<>>
                   /\ gen_result[1] \in ClosedItems(connectors, "connector",
                                                    "connectors.json")

\* the pattern has one slot, a dict with a pos that no document has
SingleUnsatisfiable(pattern) ==
    /\ Len(pattern.slots) = 1
    /\ pattern.slots[1].kind = "dict"
    /\ pattern.slots[1].name # <<>>
    /\ pattern.slots[1].pos # ""
    /\ \A k \in 1..Len(fs_lexicon) : fs_lexicon[k].pos # pattern.slots[1].pos

\* the slot is filled from pronouns.json or connectors.json
FromClosedClass(slot_name) ==
    \/ slot_name = SlotText.Subject /\ pronouns.subject_pronouns # <<>>
    \/ slot_name = SlotText.Object /\ pronouns.object_pronouns # <<>>
    \/ slot_name = SlotText.Connector /\ connectors # <<>>

\* the domain passed has a document to fall back on
DomainHasEntry(domain) ==
    /\ domain # ""
    /\ fs_ok
    /\ \E k \in 1..Len(fs_lexicon) : fs_lexicon[k].domain = domain

\* the names the pattern declares
DeclaredNames(pattern) ==
    {SlotName(pattern.slots[k]) : k \in 1..Len(pattern.slots)} \ {<<>>}

\* the entries a slot can be resolved to
RealEntries ==
    SeqRange(fs_lexicon)
    \cup ClosedItems(pronouns.subject_pronouns, "pronoun", "pronouns.json")
    \cup ClosedItems(pronouns.object_pronouns, "pronoun", "pronouns.json")
    \cup ClosedItems(connectors, "connector", "connectors.json")

\* every key is a declared name, met once, and mapped to a real entry
MapWellFormed(pattern, map) ==
    /\ \A k \in 1..Len(map) :
          /\ map[k].name \in DeclaredNames(pattern)
          /\ map[k].entry \in RealEntries
    /\ \A j, k \in 1..Len(map) : map[j].name = map[k].name => j = k

\* C15 as stated: filling a pattern whose single slot has a pos constraint
\* that no lexicon entry satisfies returns an empty map; the map holds only
\* declared names, each mapped to a real entry, and no None.
C15_AlwaysEmpty ==
    gen_call = "fill_pattern_slots" =>
        /\ SingleUnsatisfiable(gen_args[1]) => gen_result = <<>>
        /\ MapWellFormed(gen_args[1], gen_result)

\* C15: filling a pattern whose single slot has a pos constraint that no
\* lexicon entry satisfies returns an empty map unless the slot is filled
\* from a closed class or the domain passed has an entry to fall back on;
\* every map holds only declared names, each once and mapped to a real
\* entry, and an unfilled slot is absent.
C15_SlotOmission ==
    gen_call = "fill_pattern_slots" =>
        LET pattern == gen_args[1]
            domain == gen_args[2]
        IN  /\ ( /\ SingleUnsatisfiable(pattern)
                 /\ ~FromClosedClass(pattern.slots[1].name)
                 /\ ~DomainHasEntry(domain) )
                => gen_result = <<>>
            /\ MapWellFormed(pattern, gen_result)

\* a single slot with a pos nobody has was left out although documents exist
C15_Witness ==
    /\ gen_call = "fill_pattern_slots"
    /\ SingleUnsatisfiable(gen_args[1])
    /\ fs_ok
    /\ fs_lexicon # <<>>
    /\ gen_result = <<>>

\* C16: the trace of generate names only what built the text: a pattern id
\* is listed only if a sentence built from that pattern is part of the text,
\* and a lexicon entry only if its target text is part of the text.
C16_TraceOnlyUsed ==
    (gen_call = "generate" /\ "raised" \notin DOMAIN gen_result) =>
        /\ \A k \in 1..Len(gen_result.meta.pattern_ids) :
              \E j \in 1..Len(gen_locals.structure) :
                  /\ gen_locals.structure[j].pattern_id
                        = gen_result.meta.pattern_ids[k]
                  /\ SentenceOf(gen_locals.structure[j]) # <<>>
                  /\ Contains(gen_result.text,
                              SentenceOf(gen_locals.structure[j])[1])
        /\ \A k \in 1..Len(gen_result.meta.lexicon_entries) :
              /\ gen_result.meta.lexicon_entries[k].target # <<>>
              /\ Contains(gen_result.text,
                          gen_result.meta.lexicon_entries[k].target)


----------------------------------------------------------------------------
(* Inputs of the SSML helpers                                               *)

MaxSsmlLen == 3

SsmlChars == {"a", "B", " ", "&", "<", "\""}

\* texts of the tests and texts with tabs, digits, entities and punctuation
SampleTexts ==
    { <<"h", "e", "l", "l", "o", " ", "w", "o", "r", "l", "d">>,
      <<"b", "i", "k", "o", ",", " ", "n", "d", "e", ".">>,
      <<"a", " ", "&", " ", "b">>,
      <<"a", "\t", "B">>,
      <<"B", "2", "_", "a">>,
      <<"&", "a", "m", "p", ";">>,
      <<"a", "b", "<", "A", "B">>,
      <<"a", ">", "b">> }

SsmlTexts == Texts(SsmlChars, MaxSsmlLen) \cup SampleTexts

\* words with and without a transcription, in the dictionary or the fallback
IpaWords ==
    { <<>>,
      <<"a">>,
      <<"B">>,
      <<" ", "a", " ">>,
      <<"a", "b">>,
      <<"A", "B">>,
      <<"b">>,
      <<"n", "d", "e">>,
      <<"B", "i", "k", "o">>,
      <<"x">>,
      <<" ">> }

\* dictionaries: empty; with markup characters, an empty transcription and
\* a transcription that reads like an entity; with a key that is not
\* lower-case
IpaDicts ==
    { <<>>,
      (<<"a">> :> <<"a", "<", "\"", "&", ">">>) @@
      (<<"b">> :> <<>>) @@
      (<<"a", "b">> :> <<"&", "a", "m", "p", ";">>),
      (<<"B">> :> <<"x">>) }

----------------------------------------------------------------------------
(* The SSML helpers as a state machine                                      *)

InitSsml ==
    /\ PhraseIdle
    /\ LexiconIdle
    /\ StoreIdle
    /\ GenIdle
    /\ ApiIdle
    /\ AudioIdle
    /\ ipa_file \in {<<>>} \cup {<<d>> : d \in IpaDicts}
    /\ ipa_dict_cache = <<>>
    /\ ss_call = "none"
    /\ ss_args = <<>>
    /\ ss_result = <<>>

\* tokenize_words(text)
TokenizeWords(text) ==
    /\ ss_call = "none"
    /\ ss_call' = "tokenize_words"
    /\ ss_args' = <<text>>
    /\ ss_result' = tokenize_words(text)
    /\ UNCHANGED <<ipa_file, ipa_dict_cache>>
    /\ UNCHANGED ssOthers

\* _escape_ssml(s)
EscapeSsml(str) ==
    /\ ss_call = "none"
    /\ ss_call' = "escape_ssml"
    /\ ss_args' = <<str>>
    /\ ss_result' = escape_ssml(str)
    /\ UNCHANGED <<ipa_file, ipa_dict_cache>>
    /\ UNCHANGED ssOthers

\* word_to_ipa(word): the dictionary is loaded on first use
WordToIpa(word) ==
    /\ ss_call = "none"
    /\ ss_call' = "word_to_ipa"
    /\ ss_args' = <<word>>
    /\ ipa_dict_cache' = load_ipa_dictionary
    /\ ss_result' = word_to_ipa(word, ipa_dict_cache'[1])
    /\ UNCHANGED ipa_file
    /\ UNCHANGED ssOthers

\* text_to_ssml_with_phonemes(text, ipa_dict)
TextToSsmlWithPhonemes(text, ipa_dict) ==
    /\ ss_call = "none"
    /\ ss_call' = "text_to_ssml_with_phonemes"
    /\ ss_args' = <<text, ipa_dict>>
    /\ ss_result' = text_to_ssml_with_phonemes(text, ipa_dict)
    /\ UNCHANGED <<ipa_file, ipa_dict_cache>>
    /\ UNCHANGED ssOthers

\* text_to_ssml(text): the dictionary is loaded unless the text is blank
TextToSsml(text) ==
    /\ ss_call = "none"
    /\ ss_call' = "text_to_ssml"
    /\ ss_args' = <<text>>
    /\ ipa_dict_cache' = IF strip(text) = <<>> THEN ipa_dict_cache
                         ELSE load_ipa_dictionary
    /\ ss_result' = IF strip(text) = <<>> THEN Tag.speak_open \o Tag.speak_close
                    ELSE text_to_ssml(text, ipa_dict_cache'[1])
    /\ UNCHANGED ipa_file
    /\ UNCHANGED ssOthers

\* the call has returned; the cache stays
SsmlReturn ==
    /\ ss_call # "none"
    /\ ss_call' = "none"
    /\ ss_args' = <<>>
    /\ ss_result' = <<>>
    /\ UNCHANGED <<ipa_file, ipa_dict_cache>>
    /\ UNCHANGED ssOthers

NextSsml ==
    \/ \E text \in SsmlTexts : TokenizeWords(text)
    \/ \E str \in SsmlTexts : EscapeSsml(str)
    \/ \E word \in IpaWords : WordToIpa(word)
    \/ \E text \in SsmlTexts, d \in IpaDicts : TextToSsmlWithPhonemes(text, d)
    \/ \E text \in SsmlTexts : TextToSsml(text)
    \/ SsmlReturn

SpecSsml == InitSsml /\ [][NextSsml]_vars

----------------------------------------------------------------------------
(* The server as a state machine: startup_event and POST /translate         *)

\* the phrasebank file of the server
ApiBank ==
    << [id |-> "p1", status |-> "verified", english |-> <<"a">>, ika |-> <<"x">>],
       [id |-> "p2", status |-> "verified", english |-> <<"a", " ", "b">>, ika |-> <<"y">>],
       [id |-> "p4", status |-> "verified", english |-> <<"b">>, ika |-> <<" ">>] >>

\* the data files of the server: one fails validate_on_startup, one passes
ApiDataFiles ==
    {[patterns |-> Take(Patterns, MaxPatterns), templates |-> FullTemplates],
     [patterns |-> Take(Patterns, 2), templates |-> PoolLessTemplates]}

\* TranslateRequest
ApiTexts ==
    { <<" ">>,
      <<"a">>,
      <<"A", " ", "b">>,
      <<"c">>,
      <<"b">>,
      <<"q">>,
      <<"x">>,
      <<"y", " ", "x">>,
      <<"G", "o", " ", "s", "u", "n">> }
ApiModes == {"", "rule_based", "AUTO", "En_To_Ika", "ika_to_en", "build"}
ApiTenses == {"present", "past"}
Requests == [text : ApiTexts, mode : ApiModes, tense : ApiTenses]

\* the process before startup_event: what the environment offers
InitApi ==
    /\ LexiconIdle
    /\ SsmlIdle
    /\ AudioIdle
    /\ env \in [phrasebank : BOOLEAN, firebase : BOOLEAN, dataset : BOOLEAN]
    /\ started = FALSE
    /\ validation = "not run"
    /\ generator = "None"
    /\ tr_call = "none"
    /\ tr_req = <<>>
    /\ tr_response = <<>>
    /\ tr_stages = <<>>
    /\ raw_items = IF env.phrasebank THEN ApiBank ELSE <<>>
    /\ pb_loaded = FALSE
    /\ pb_items = <<>>
    /\ pb_trie = EmptyTrie
    /\ map_built = FALSE
    /\ ika_en_map = <<>>
    /\ pc = "idle"
    /\ tokens = <<>>
    /\ i = 0
    /\ matches = <<>>
    /\ ika_out = <<>>
    /\ pb_text = <<>>
    /\ st_export \in (IF env.dataset THEN {<<>>, Take(ExportDocs, MaxDocs)} ELSE {<<>>})
    /\ st_dict = <<>>
    /\ st_loaded = FALSE
    /\ st_entries = <<>>
    /\ by_domain = <<>>
    /\ st_en_to_ika = <<>>
    /\ st_ika_to_en = <<>>
    /\ ika_token_set = {}
    /\ dg_call = "none"
    /\ dg_args = <<>>
    /\ dg_result = <<>>
    /\ dg_locals = <<>>
    /\ rl_pc = "idle"
    /\ rl_entries = <<>>
    /\ rl_i = 0
    /\ fs_lexicon = Take(FsDocs, MaxLexDocs)
    /\ fs_ok \in BOOLEAN
    /\ \E c \in ClosedClasses :
          /\ pronouns = c.pronouns
          /\ connectors = c.connectors
          /\ rules = c.tense_markers
    /\ \E d \in ApiDataFiles : pattern_index = d.patterns /\ templates = d.templates
    /\ gen_call = "none"
    /\ gen_args = <<>>
    /\ gen_result = <<>>
    /\ gen_locals = <<>>

\* what no endpoint writes
ApiKept ==
    /\ UNCHANGED <<env, raw_items, pc, tokens, i, matches, ika_out, pb_text>>
    /\ UNCHANGED <<st_export, st_dict, dg_call, dg_args, dg_result, dg_locals>>
    /\ UNCHANGED <<rl_pc, rl_entries, rl_i>>
    /\ UNCHANGED genVars
    /\ UNCHANGED apiOthers

\* startup_event: the ValueError of validate_on_startup is logged and the
\* startup goes on; the generator is None when Firebase cannot be reached
\* and the store is None when the dataset cannot be loaded
Startup ==
    /\ ~started
    /\ started' = TRUE
    /\ validation' = IF validate_on_startup = {} THEN "passed" ELSE "failed"
    /\ generator' = IF env.firebase THEN "Generator" ELSE "None"
    /\ IF env.dataset
       THEN /\ st_loaded' = TRUE
            /\ st_entries' = StoreEntries(st_export) \o StoreEntries(st_dict)
            /\ by_domain' = IndexBy(st_entries', "by_domain")
            /\ st_en_to_ika' = IndexBy(st_entries', "en_to_ika")
            /\ st_ika_to_en' = IndexBy(st_entries', "ika_to_en")
            /\ ika_token_set' = IkaTokens(st_entries')
       ELSE UNCHANGED <<st_loaded, st_entries, by_domain, st_en_to_ika,
                        st_ika_to_en, ika_token_set>>
    /\ UNCHANGED <<tr_call, tr_req, tr_response, tr_stages>>
    /\ UNCHANGED <<pb_loaded, pb_items, pb_trie, map_built, ika_en_map>>
    /\ ApiKept

\* the engines named by the stages of a request
Asked(stages, engine) == \E k \in 1..Len(stages) : stages[k].engine = engine

\* POST /translate; get_phrasebank() and _ika_to_en_map() load on first use
PostTranslate(req) ==
    /\ started
    /\ tr_call = "none"
    /\ \E out \in translate(req) :
          /\ tr_response' = <<out.response>>
          /\ tr_stages' = out.stages
          /\ IF Asked(out.stages, "phrasebank") /\ env.phrasebank /\ ~pb_loaded
             THEN /\ pb_loaded' = TRUE
                  /\ pb_items' = LoadedItems
                  /\ pb_trie' = BuildTrie(LoadedItems, EmptyTrie)
             ELSE UNCHANGED <<pb_loaded, pb_items, pb_trie>>
          /\ IF Asked(out.stages, "phrasebank_fuzzy") /\ env.phrasebank /\ ~map_built
             THEN /\ map_built' = TRUE
                  /\ ika_en_map' = BuildIkaEnMap(LoadedItems)
             ELSE UNCHANGED <<map_built, ika_en_map>>
    /\ tr_call' = "translate"
    /\ tr_req' = <<req>>
    /\ UNCHANGED <<started, validation, generator>>
    /\ UNCHANGED <<st_loaded, st_entries, by_domain, st_en_to_ika, st_ika_to_en,
                   ika_token_set>>
    /\ ApiKept

\* the response is sent
ApiReturn ==
    /\ tr_call # "none"
    /\ tr_call' = "none"
    /\ tr_req' = <<>>
    /\ tr_response' = <<>>
    /\ tr_stages' = <<>>
    /\ UNCHANGED <<started, validation, generator>>
    /\ UNCHANGED <<pb_loaded, pb_items, pb_trie, map_built, ika_en_map>>
    /\ UNCHANGED <<st_loaded, st_entries, by_domain, st_en_to_ika, st_ika_to_en,
                   ika_token_set>>
    /\ ApiKept

NextApi ==
    \/ Startup
    \/ \E req \in Requests : PostTranslate(req)
    \/ ApiReturn

SpecApi == InitApi /\ [][NextApi]_vars

----------------------------------------------------------------------------
(* AudioCache (app/audio_cache.py).  A SHA-256 digest is modelled by the    *)
(* text it is computed from: different texts have different digests.  The   *)
(* numbers are written as f-strings write them.                             *)

MaxBlobs == 3

\* the MP3 that generate_tts_audio_mp3 makes for a text and its parameters
Mp3(text, voice, speaking_rate, pitch) ==
    [text |-> text, voice |-> voice, speaking_rate |-> speaking_rate,
     pitch |-> pitch]

\* generate_tts_audio: the wrapper passes the voice only
generate_tts_audio(text, voice) == Mp3(text, voice, <<"1", ".", "0">>, <<"0", ".", "0">>)

\* _cache_key: the digest of text.strip()|voice|speaking_rate|pitch
cache_key(text, voice, speaking_rate, pitch) ==
    strip(text) \o <<"|">> \o voice \o <<"|">> \o speaking_rate \o <<"|">> \o pitch

\* the digest get_or_generate_audio computes: of the stripped text alone
text_key(text) == strip(text)

\* blob.upload_from_string
Upload(blobs, path, audio) ==
    [p \in DOMAIN blobs \cup {path} |-> IF p = path THEN audio ELSE blobs[p]]

\* texts, voices, rates and pitches of the requests
AudioTexts == {<<"a">>, <<" ", "a">>, <<"b">>, <<" ">>}
AudioParams ==
    { [voice |-> <<"d">>, speaking_rate |-> <<"1", ".", "0">>, pitch |-> <<"0", ".", "0">>],
      [voice |-> <<"v">>, speaking_rate |-> <<"1", ".", "0">>, pitch |-> <<"0", ".", "0">>],
      [voice |-> <<"d">>, speaking_rate |-> <<"1", ".", "5">>, pitch |-> <<"0", ".", "0">>],
      [voice |-> <<"d">>, speaking_rate |-> <<"1", ".", "0">>, pitch |-> <<"2", ".", "0">>] }

InitAudio ==
    /\ PhraseIdle
    /\ LexiconIdle
    /\ StoreIdle
    /\ GenIdle
    /\ SsmlIdle
    /\ ApiIdle
    /\ bucket = <<>>
    /\ au_call = "none"
    /\ au_args = <<>>
    /\ au_result = <<>>

\* AudioCache.get_cached_audio_bytes: None is <<>>
GetCachedAudioBytes(text, voice, speaking_rate, pitch) ==
    /\ au_call = "none"
    /\ au_call' = "get_cached_audio_bytes"
    /\ au_args' = <<text, voice, speaking_rate, pitch>>
    /\ LET path == cache_key(text, voice, speaking_rate, pitch)
       IN  au_result' = IF path \in DOMAIN bucket THEN <<bucket[path]>> ELSE <<>>
    /\ UNCHANGED bucket
    /\ UNCHANGED auOthers

\* AudioCache.put_cached_audio_bytes with the audio made for the request
PutCachedAudioBytes(text, voice, speaking_rate, pitch) ==
    /\ au_call = "none"
    /\ LET path == cache_key(text, voice, speaking_rate, pitch)
       IN  /\ path \in DOMAIN bucket \/ Cardinality(DOMAIN bucket) < MaxBlobs
           /\ bucket' = Upload(bucket, path,
                               Mp3(strip(text), voice, speaking_rate, pitch))
    /\ au_call' = "put_cached_audio_bytes"
    /\ au_args' = <<text, voice, speaking_rate, pitch>>
    /\ au_result' = <<>>
    /\ UNCHANGED auOthers

\* AudioCache.get_or_generate_audio: the signed URL names the blob
GetOrGenerateAudio(text, voice) ==
    /\ au_call = "none"
    /\ au_call' = "get_or_generate_audio"
    /\ au_args' = <<text, voice>>
    /\ LET text_clean == strip(text)
           storage_path == text_key(text)
       IN  IF text_clean = <<>>
           THEN /\ au_result' = [raised |-> "ValueError"]
                /\ UNCHANGED bucket
           ELSE IF storage_path \in DOMAIN bucket
           THEN /\ au_result' = [signed_url |-> storage_path]
                /\ UNCHANGED bucket
           ELSE /\ Cardinality(DOMAIN bucket) < MaxBlobs
                /\ bucket' = Upload(bucket, storage_path,
                                    generate_tts_audio(text_clean, voice))
                /\ au_result' = [signed_url |-> storage_path]
    /\ UNCHANGED auOthers

\* the call has returned
AudioReturn ==
    /\ au_call # "none"
    /\ au_call' = "none"
    /\ au_args' = <<>>
    /\ au_result' = <<>>
    /\ UNCHANGED bucket
    /\ UNCHANGED auOthers

NextAudio ==
    \/ \E text \in AudioTexts, q \in AudioParams :
          GetCachedAudioBytes(text, q.voice, q.speaking_rate, q.pitch)
    \/ \E text \in AudioTexts, q \in AudioParams :
          PutCachedAudioBytes(text, q.voice, q.speaking_rate, q.pitch)
    \/ \E text \in AudioTexts, q \in AudioParams : GetOrGenerateAudio(text, q.voice)
    \/ AudioReturn

SpecAudio == InitAudio /\ [][NextAudio]_vars


----------------------------------------------------------------------------
(* Properties of the SSML helpers                                           *)

\* all characters of the token belong to one alternative of the pattern
OneClass(t, class) == \A k \in 1..Len(t) : CharClass(t[k]) = class

\* the tokens are runs of word characters, runs of whitespace or single
\* other characters, and no run could be longer
MaximalRuns(toks) ==
    /\ \A k \in 1..Len(toks) :
          /\ toks[k] # <<>>
          /\ \/ OneClass(toks[k], "word")
             \/ OneClass(toks[k], "space")
             \/ Len(toks[k]) = 1 /\ OneClass(toks[k], "other")
    /\ \A k \in 1..(Len(toks) - 1) :
          CharClass(toks[k][1]) = "other"
          \/ CharClass(toks[k][1]) # CharClass(toks[k + 1][1])

\* C19 as stated: for every input text the tokens of tokenize_words are
\* maximal runs in order and their concatenation is the text.
C19_EveryText ==
    ss_call = "tokenize_words" =>
        /\ MaximalRuns(ss_result)
        /\ Flatten(ss_result) = ss_args[1]

\* C19: for every text that has a character other than whitespace the
\* tokens of tokenize_words are maximal runs of word characters, maximal
\* runs of whitespace and single other characters, in order, and their
\* concatenation is the text; a text of whitespace only gives no token.
C19_TokenizeCoverage ==
    ss_call = "tokenize_words" =>
        /\ MaximalRuns(ss_result)
        /\ strip(ss_args[1]) # <<>> => Flatten(ss_result) = ss_args[1]
        /\ strip(ss_args[1]) = <<>> => ss_result = <<>>

\* a text with all three kinds of token was split
C19_Witness ==
    /\ ss_call = "tokenize_words"
    /\ Len(ss_result) >= 3
    /\ \E j, k, m \in 1..Len(ss_result) :
          /\ OneClass(ss_result[j], "word")
          /\ OneClass(ss_result[k], "space")
          /\ OneClass(ss_result[m], "other")

\* str starts with part at position k
StartsAt(str, k, part) ==
    /\ k + Len(part) - 1 <= Len(str)
    /\ SubSeq(str, k, k + Len(part) - 1) = part

\* the first position from k on where part starts, 0 when there is none
FindFrom(str, k, part) ==
    LET hits == {q \in k..Len(str) : StartsAt(str, q, part)}
    IN  IF hits = {} THEN 0 ELSE SetMin(hits)

Entities ==
    {[entity |-> Entity.amp, char |-> "&"], [entity |-> Entity.lt, char |-> "<"],
     [entity |-> Entity.gt, char |-> ">"], [entity |-> Entity.quot, char |-> "\""]}

Failed == [ok |-> FALSE, text |-> <<>>, phonemes |-> <<>>]

RECURSIVE Unescape(_, _)
\* reads escaped text from position k on: an entity gives its character, a
\* raw markup character or a loose ampersand fails
Unescape(str, k) ==
    IF k > Len(str) THEN [ok |-> TRUE, text |-> <<>>]
    ELSE IF str[k] \in {"<", ">", "\""} THEN [ok |-> FALSE, text |-> <<>>]
    ELSE LET found == {e \in Entities : StartsAt(str, k, e.entity)}
             e == CHOOSE x \in found : TRUE
             rest == Unescape(str, IF found = {} THEN k + 1 ELSE k + Len(e.entity))
         IN  IF str[k] = "&" /\ found = {} THEN [ok |-> FALSE, text |-> <<>>]
             ELSE [ok |-> rest.ok,
                   text |-> <<IF found = {} THEN str[k] ELSE e.char>> \o rest.text]

RECURSIVE ReadBody(_, _)
\* reads the body of the markup from position k on: phoneme elements and
\* escaped text; gives the text read and the transcription of every element
ReadBody(str, k) ==
    IF k > Len(str) THEN [ok |-> TRUE, text |-> <<>>, phonemes |-> <<>>]
    ELSE IF StartsAt(str, k, Tag.phoneme_open)
    THEN LET from == k + Len(Tag.phoneme_open)
             mid == FindFrom(str, from, Tag.phoneme_mid)
             close == IF mid = 0 THEN 0
                      ELSE FindFrom(str, mid + Len(Tag.phoneme_mid), Tag.phoneme_close)
         IN  IF mid = 0 \/ close = 0 THEN Failed
             ELSE LET ph == Unescape(SubSeq(str, from, mid - 1), 1)
                      word == Unescape(SubSeq(str, mid + Len(Tag.phoneme_mid),
                                              close - 1), 1)
                      rest == ReadBody(str, close + Len(Tag.phoneme_close))
                  IN  IF ~ph.ok \/ ~word.ok \/ ~rest.ok THEN Failed
                      ELSE [ok |-> TRUE,
                            text |-> word.text \o rest.text,
                            phonemes |-> <<[word |-> word.text, ph |-> ph.text]>>
                                            \o rest.phonemes]
    ELSE LET stop == FindFrom(str, k, Tag.phoneme_open)
             upto == IF stop = 0 THEN Len(str) ELSE stop - 1
             plain == Unescape(SubSeq(str, k, upto), 1)
             rest == ReadBody(str, upto + 1)
         IN  IF ~plain.ok \/ ~rest.ok THEN Failed
             ELSE [ok |-> TRUE, text |-> plain.text \o rest.text,
                   phonemes |-> rest.phonemes]

\* the markup between the speak tags, <<>> when the tags are not there
SpeakBody(out) ==
    IF /\ Len(out) >= Len(Tag.speak_open) + Len(Tag.speak_close)
       /\ StartsAt(out, 1, Tag.speak_open)
       /\ StartsAt(out, Len(out) - Len(Tag.speak_close) + 1, Tag.speak_close)
    THEN <<SubSeq(out, Len(Tag.speak_open) + 1, Len(out) - Len(Tag.speak_close))>>
    ELSE <<>>

\* C20: the markup of text_to_ssml_with_phonemes is the speak wrapper
\* around phoneme elements and escaped text; outside the tags no raw <, >
\* or double quote occurs and every & starts an entity; unescaping once
\* gives back the input text and, in every phoneme element, the
\* transcription of the dictionary and the word it stands for.
C20_EscapedOnce ==
    ss_call = "text_to_ssml_with_phonemes" =>
        LET text == ss_args[1]
            body == SpeakBody(ss_result)
            read == ReadBody(body[1], 1)
        IN  /\ body # <<>>
            /\ read.ok
            /\ read.text = IF strip(text) = <<>> THEN <<>> ELSE text
            /\ \A k \in 1..Len(read.phonemes) :
                  word_to_ipa(read.phonemes[k].word, ss_args[2])
                      = <<read.phonemes[k].ph>>

\* a transcription and a text with markup characters were both escaped
C20_Witness ==
    /\ ss_call = "text_to_ssml_with_phonemes"
    /\ \E k \in 1..Len(ss_args[1]) : ss_args[1][k] \in {"&", "<", ">", "\""}
    /\ \E k \in 1..Len(ss_args[1]) : ss_args[1][k] = "a"
    /\ <<"a">> \in DOMAIN ss_args[2]
    /\ Contains(ss_result, Tag.phoneme_open)
    /\ Contains(ss_result, Entity.amp \o Entity.gt)

\* the transcription of a token: that of the dictionary under the
\* lower-cased token, that of the fallback table only when the dictionary
\* has no such key, <<>> when neither has one
Transcription(t, d) ==
    IF lower(t) \in DOMAIN d THEN <<d[lower(t)]>>
    ELSE IF lower(t) \in DOMAIN FALLBACK_IPA THEN <<FALLBACK_IPA[lower(t)]>>
    ELSE <<>>

\* the word tokens of the text, in order
WordTokens(text) ==
    LET IsWord(t) == OneClass(t, "word")
    IN  SelectSeq(tokenize_words(text), IsWord)

\* the phoneme elements expected for the text: one for every word token
\* that has a transcription (an empty one counted only when with_empty)
Annotated(text, d, with_empty) ==
    LET Has(t) == /\ Transcription(t, d) # <<>>
                  /\ with_empty \/ Transcription(t, d)[1] # <<>>
        words == SelectSeq(WordTokens(text), Has)
    IN  [k \in 1..Len(words) |->
            [word |-> words[k], ph |-> Transcription(words[k], d)[1]]]

\* how often part occurs in str
CountOf(str, part) == Cardinality({k \in 1..Len(str) : StartsAt(str, k, part)})

\* the markup has the speak wrapper, the phoneme elements expected, no
\* other phoneme tag, and every word of the text
AnnotatedAs(out, text, expected) ==
    LET body == SpeakBody(out)
        read == ReadBody(body[1], 1)
    IN  /\ body # <<>>
        /\ read.ok
        /\ read.phonemes = expected
        /\ CountOf(out, Tag.phoneme_open) = Len(expected)
        /\ CountOf(out, Tag.phoneme_close) = Len(expected)
        /\ \A k \in 1..Len(WordTokens(text)) : Contains(out, WordTokens(text)[k])

\* the lookup does not depend on the case of the word
CaseInsensitive(word, d) ==
    /\ word_to_ipa(word, d) = word_to_ipa(lower(word), d)
    /\ word_to_ipa(word, d) =
          IF strip(word) = <<>> THEN <<>> ELSE Transcription(strip(word), d)

\* C21 as stated: the markup is wrapped in the speak tags, has one phoneme
\* element, with the transcription and the surface form, for every word
\* token that has a transcription in the dictionary or, when the dictionary
\* has none, in the fallback table, and has every word of the text.
C21_AnyTranscription ==
    ss_call = "text_to_ssml_with_phonemes" =>
        AnnotatedAs(ss_result, ss_args[1], Annotated(ss_args[1], ss_args[2], TRUE))

\* C21: the markup is wrapped in the speak tags; every word token is
\* lower-cased and looked up in the dictionary first and in the fallback
\* table only when the dictionary has no such key; the phoneme elements
\* are, in order, those of the word tokens whose transcription is not
\* empty, each with that transcription and the surface form; every other
\* token is plain text and every word of the text occurs in the markup.
C21_PhonemeElements ==
    /\ ss_call = "text_to_ssml_with_phonemes" =>
          /\ AnnotatedAs(ss_result, ss_args[1],
                         Annotated(ss_args[1], ss_args[2], FALSE))
          /\ \A k \in 1..Len(WordTokens(ss_args[1])) :
                CaseInsensitive(WordTokens(ss_args[1])[k], ss_args[2])
    /\ ss_call = "word_to_ipa" =>
          /\ ss_result = word_to_ipa(ss_args[1], ipa_dict_cache[1])
          /\ CaseInsensitive(ss_args[1], ipa_dict_cache[1])

\* a word was annotated from the dictionary next to an upper-case word
\* whose transcription in the dictionary is empty
C21_Witness ==
    /\ ss_call = "text_to_ssml_with_phonemes"
    /\ \E k \in 1..Len(WordTokens(ss_args[1])) :
          LET t == WordTokens(ss_args[1])[k]
          IN  /\ lower(t) \in DOMAIN ss_args[2]
              /\ ss_args[2][lower(t)] # <<>>
    /\ \E k \in 1..Len(WordTokens(ss_args[1])) :
          LET t == WordTokens(ss_args[1])[k]
          IN  /\ t # lower(t)
              /\ Transcription(t, ss_args[2]) = <<<<>>>>
    /\ Len(Annotated(ss_args[1], ss_args[2], FALSE)) = 1
    /\ Contains(ss_result, Tag.phoneme_open)

----------------------------------------------------------------------------
(* The order of the engines of POST /translate                              *)

\* the place of an engine in the handler
StageRank(engine) ==
    CASE engine = "phrasebank" -> 1
      [] engine = "dataset" -> 2
      [] engine = "phrasebank_fuzzy" -> 3
      [] engine = "rule_based" -> 4

\* the stage of an engine in the answered request
StageOf(engine) ==
    LET Is(st) == st.engine = engine
    IN  SelectSeq(tr_stages, Is)

\* a request has been answered and the answer is not yet sent
Answered == tr_call = "translate"

\* the modes that reach the dataset when a store is loaded
DatasetModes == {"auto", "en_to_ika", "ika_to_en"}

----------------------------------------------------------------------------
(* The words of a translated text                                           *)

\* the words of the target texts of the lexicon, of the closed classes and of
\* the tense markers
DatasetWords ==
    UNION {SeqRange(SplitWords(fs_lexicon[k].target_text)) : k \in 1..Len(fs_lexicon)}
    \cup UNION {SeqRange(SplitWords(pronouns.subject_pronouns[k].ika)) :
                   k \in 1..Len(pronouns.subject_pronouns)}
    \cup UNION {SeqRange(SplitWords(pronouns.object_pronouns[k].ika)) :
                   k \in 1..Len(pronouns.object_pronouns)}
    \cup UNION {SeqRange(SplitWords(connectors[k].ika)) : k \in 1..Len(connectors)}
    \cup (IF rules = <<>> THEN {}
          ELSE UNION {SeqRange(SplitWords(rules[t])) : t \in DOMAIN rules})

\* C23: every word of the text Generator.translate returns is a word of a
\* target text of the dataset; no input word is passed through untranslated
C23_OnlyTargetTexts ==
    gen_call = "translate"
        => \A word \in SeqRange(SplitWords(gen_result.text)) : word \in DatasetWords

----------------------------------------------------------------------------
(* Validation at startup                                                    *)

\* a pattern pool of the templates names an id the pattern repository lacks
PoolNamesAbsentId == validate_templates # {}

\* C24: when a pattern pool names a pattern id that the repository does not
\* have, validation fails and the startup stops: the server does not start
\* and no request is answered
C24_StartupStops ==
    PoolNamesAbsentId => /\ ~started
                         /\ tr_call = "none"

----------------------------------------------------------------------------
(* Reloading the dataset                                                    *)

\* the indices are the complete indices of the entries of the store
IndicesComplete ==
    /\ by_domain = IndexBy(st_entries, "by_domain")
    /\ st_en_to_ika = IndexBy(st_entries, "en_to_ika")
    /\ st_ika_to_en = IndexBy(st_entries, "ika_to_en")
    /\ ika_token_set = IkaTokens(st_entries)

\* C25: in every state a request can read, also while load runs again, the
\* indices are complete and agree with the entries of the store: they are
\* those of the old export or those of the new one, never empty or partly
\* rebuilt
C25_AtomicSwap == st_loaded => IndicesComplete

\* between two loads the indices are complete
ReloadIdleComplete == (st_loaded /\ rl_pc = "idle") => IndicesComplete

\* a request got its answer from indices that load had cleared and not yet
\* rebuilt
ReadWhileRebuilding ==
    /\ rl_pc = "fill"
    /\ rl_i < Len(rl_entries)
    /\ dg_call = "translate_ika_to_en"
    /\ dg_result = NotFoundText
    /\ lower(strip(dg_args[1])) \in DOMAIN IndexBy(st_entries, "ika_to_en")

----------------------------------------------------------------------------
(* Reads of the loaded store                                                *)

\* a request-time call on the loaded store has just been made
StoreCallMade == st_loaded /\ dg_call = "none" /\ dg_call' # "none"

----------------------------------------------------------------------------
(* Totality of the generator                                                *)

\* C27: Generator.generate returns a value for the kinds poem, story and
\* lecture, for every length and every loaded template configuration; it
\* does not raise
C27_GenerateReturns ==
    (gen_call = "generate" /\ gen_args[1] \in {"poem", "story", "lecture"})
        => "raised" \notin DOMAIN gen_result

----------------------------------------------------------------------------
(* The order of the sources of fill_slot                                    *)

\* the documents the lexicon gives for a part of speech, within the domain
\* when one is given; none when the query fails
WithPos(pos, domain) ==
    {fs_lexicon[k] : k \in {j \in 1..Len(fs_lexicon) :
                              /\ fs_ok
                              /\ pos # ""
                              /\ fs_lexicon[j].pos = pos
                              /\ domain = "" \/ fs_lexicon[j].domain = domain}}

\* the documents of a domain, whatever their part of speech
WithDomain(domain) ==
    {fs_lexicon[k] : k \in {j \in 1..Len(fs_lexicon) :
                              /\ fs_ok
                              /\ domain # ""
                              /\ fs_lexicon[j].domain = domain}}

\* the part of speech fill_slot asks the lexicon for: the explicit
\* constraint, and the one inferred from the name only without a constraint
AskedPos(slot_name, slot_constraints) ==
    IF slot_constraints # <<>> /\ slot_constraints[1].pos # ""
    THEN slot_constraints[1].pos
    ELSE infer_pos_from_slot_name(slot_name)

\* C28: a slot that is not filled from a closed class gets an entry of the
\* first non-empty source: the lexicon entries with the explicit part of
\* speech, or with the inferred one when no constraint is given, within the
\* domain when one is given; else the entries of the given domain; else none
C28_SourceOrder ==
    (gen_call = "fill_slot" /\ ~FromClosedClass(gen_args[1])) =>
        LET slot_name == gen_args[1]
            domain == gen_args[3]
            first == WithPos(AskedPos(slot_name, gen_args[2]), domain)
            second == WithDomain(domain)
        IN  IF first # {} THEN gen_result # <<>> /\ gen_result[1] \in first
            ELSE IF second # {} THEN gen_result # <<>> /\ gen_result[1] \in second
            ELSE gen_result = <<>>

\* a slot with an explicit part of speech that no entry has, whose name infers
\* a part of speech that entries of the lexicon do have, filled from the
\* entries of the domain
C28_Witness ==
    /\ gen_call = "fill_slot"
    /\ ~FromClosedClass(gen_args[1])
    /\ gen_args[2] # <<>>
    /\ WithPos(gen_args[2][1].pos, gen_args[3]) = {}
    /\ WithPos(infer_pos_from_slot_name(gen_args[1]), "") # {}
    /\ gen_result # <<>>
    /\ gen_result[1] \in WithDomain(gen_args[3])

----------------------------------------------------------------------------
(* The trace records of generate_story and generate_lecture                 *)

\* the sections of a kind in the declared order
SectionNames(kind) ==
    IF kind = "story" THEN <<"opening", "conflict", "resolution">>
    ELSE <<"intro", "explain", "summary">>

\* the templates of a kind
TemplatesOf(kind) ==
    IF kind = "story" THEN templates.story_templates ELSE templates.lecture_templates

\* the configured range of a section, with the defaults of the kind
RangeOf(kind, section_config) ==
    [lo |-> GetOr(section_config.min_sentences, IF kind = "story" THEN 1 ELSE 2),
     hi |-> GetOr(section_config.max_sentences, IF kind = "story" THEN 3 ELSE 5)]

\* the place of a section in the declared order
SectionRank(kind, section_name) ==
    CHOOSE k \in 1..3 : SectionNames(kind)[k] = section_name

\* every id of the pool names a pattern of the repository
PoolResolves(pattern_pool) ==
    \A k \in 1..Len(pattern_pool) : get_pattern(pattern_pool[k]) # <<>>

\* the records are those of one run over the template
FitsTemplate(kind, template, structure) ==
    /\ \A k \in 1..Len(structure) :
          /\ structure[k].section \in SeqRange(SectionNames(kind))
          /\ structure[k].pattern_id
                \in SeqRange(template[structure[k].section].pattern_pool)
    /\ \A j, k \in 1..Len(structure) :
          j < k => SectionRank(kind, structure[j].section)
                      <= SectionRank(kind, structure[k].section)
    /\ \A n \in 1..3 :
          LET section_name == SectionNames(kind)[n]
              config == template[section_name]
              count == Cardinality({k \in 1..Len(structure) :
                                       structure[k].section = section_name})
          IN  /\ count <= RangeOf(kind, config).hi
              /\ (config.pattern_pool # <<>> /\ PoolResolves(config.pattern_pool))
                    => count >= RangeOf(kind, config).lo

\* C29: the records generate_story and generate_lecture return are grouped by
\* section in the declared order; a section has at most its maximum of
\* records, and at least its minimum when its pool is not empty and every
\* pooled id resolves; the pattern id of every record is in the pool of its
\* section
C29_SectionsInOrder ==
    (gen_call = "generate" /\ gen_args[1] \in {"story", "lecture"}
        /\ "raised" \notin DOMAIN gen_result) =>
        \/ TemplatesOf(gen_args[1]) = <<>> /\ gen_locals.structure = <<>>
        \/ \E n \in 1..Len(TemplatesOf(gen_args[1])) :
              FitsTemplate(gen_args[1], TemplatesOf(gen_args[1])[n],
                           gen_locals.structure)

\* a story with a record of the opening followed by one of the conflict,
\* from a template whose conflict pool names an id that does not resolve
C29_Witness ==
    /\ gen_call = "generate"
    /\ gen_args[1] = "story"
    /\ "raised" \notin DOMAIN gen_result
    /\ Len(gen_locals.structure) = 2
    /\ gen_locals.structure[1].section = "opening"
    /\ gen_locals.structure[2].section = "conflict"
    /\ ~PoolResolves(templates.story_templates[1].conflict.pattern_pool)

----------------------------------------------------------------------------
(* The keys of the audio cache                                              *)

\* C30: every blob of the cache is stored under the digest of the text, the
\* voice, the rate and the pitch its audio was made for, and the audio a
\* request is given was made for the voice of the request
C30_KeyedByAllFour ==
    /\ \A path \in DOMAIN bucket :
          path = cache_key(bucket[path].text, bucket[path].voice,
                           bucket[path].speaking_rate, bucket[path].pitch)
    /\ (au_call = "get_or_generate_audio" /\ "signed_url" \in DOMAIN au_result)
          => bucket[au_result.signed_url].voice = au_args[2]

\* get_or_generate_audio answered a request with the audio of another voice
SharedAcrossVoices ==
    /\ au_call = "get_or_generate_audio"
    /\ "signed_url" \in DOMAIN au_result
    /\ bucket[au_result.signed_url].voice # au_args[2]

\* the blobs put_cached_audio_bytes stores are found under their four values
PutThenGet ==
    (au_call = "get_cached_audio_bytes" /\ au_result # <<>>)
        => au_result[1] = Mp3(strip(au_args[1]), au_args[2], au_args[3], au_args[4])

====
